---- MODULE Spec2Model ----
(***************************************************************************)
(* A model of jennah's job dispatch layer: the Router's tier decision, the *)
(* Dispatcher's registry and forwarding calls, the Cloud Tasks and Cloud   *)
(* Run Jobs providers with the backend calls they make, and the two status *)
(* mappers; and of the operations beside it: the providers' ListJobs and   *)
(* constructors, the demo job's ChunkCalculator, ErrorHandler and          *)
(* Processor, and the aggregator's loading, listing and Calculate.         *)
(***************************************************************************)
EXTENDS Integers, Sequences, FiniteSets, TLC

VARIABLES
    built,      \* outcome of dispatcher.New: "unbuilt", "ok", "error", "panic"
    inflight,   \* per goroutine, the Dispatcher call it is inside of
    providers,  \* Dispatcher.providers: a function on the registered tiers
    calls,      \* provider methods invoked by the latest Dispatcher call
    last,       \* the latest Dispatcher call: its arguments and what it returned
    backend,    \* what the Cloud Tasks and Cloud Run services hold
    resources,  \* the Router's input: <<CPUMillis, MemoryMiB, MaxRunDurationSeconds>>
    assigned,   \* the Router's output, "none" before it ran
    execution,  \* the input of mapCloudRunStatus
    mapped,     \* the output of mapCloudRunStatus, "none" before it ran
    listing,    \* a provider's ListJobs call: what the backend holds and what came back
    construct,  \* a provider constructor call: its ProviderConfig and its outcome
    chunk,      \* a ChunkCalculator and the ranges it calculated
    proc,       \* the demo job's instances: their configuration, input and metrics
    retry,      \* an ErrorHandler.HandleWithRetry call in progress
    loaded,     \* the aggregator's loadFromLocal call: its directory and what came back
    agg,        \* an AggregatedMetrics value and the Calculate calls made on it
    objects,    \* a ListGCSObjects call: the bucket's objects and what came back
    queued      \* the input of mapCloudTasksStatus

\* The dispatch layer's variables, and those of the operations beside it.
core == <<built, inflight, providers, calls, last, backend, resources, assigned, execution, mapped>>
ext == <<listing, construct, chunk, proc, retry>>
\* The aggregator's variables, and the task handed to the cheap tier's mapper.
rest == <<loaded, agg, objects, queued>>
vars == <<core, ext, rest>>

-----------------------------------------------------------------------------
(* Bounds of the model.                                                    *)

MaxOpts == 2        \* options passed to one dispatcher.New call
MaxCallers == 2     \* goroutines calling the Dispatcher concurrently
MaxTasks == 1       \* task names the Cloud Tasks backend issues
MaxJobs == 1        \* distinct JobIDs the callers use
MaxConds == 2       \* length of an execution's condition list
MaxListed == 2      \* resources the backend holds under the listed parent
MaxFileSize == 7    \* bytes of the file a ChunkCalculator divides
MaxInstances == 3   \* instances the demo job's work is divided across

-----------------------------------------------------------------------------
(* Shared data model: router.AssignedService, batch.JobStatus, errors.     *)

AssignedServiceCloudTasks == "CLOUD_TASKS"
AssignedServiceCloudRunJob == "CLOUD_RUN_JOB"
AssignedServiceCloudBatch == "CLOUD_BATCH"
AssignedService ==
    {AssignedServiceCloudTasks, AssignedServiceCloudRunJob, AssignedServiceCloudBatch}

JobStatusUnknown == "UNKNOWN"
JobStatusPending == "PENDING"
JobStatusRunning == "RUNNING"
JobStatusCompleted == "COMPLETED"
JobStatusFailed == "FAILED"
JobStatusCancelled == "CANCELLED"
JobStatus ==
    {JobStatusUnknown, JobStatusPending, JobStatusRunning, JobStatusCompleted,
     JobStatusFailed, JobStatusCancelled}

\* A Go error is the chain of its messages, outermost first; nil is the empty chain.
NilErr == <<>>
\* fmt.Errorf("msg: %w", cause)
Wrap(msg, cause) == <<msg>> \o cause
\* The innermost error of a chain.
Cause(err) == IF err = NilErr THEN "" ELSE err[Len(err)]

\* A pointer is a sequence of at most one element; nil is the empty one.
Nil == <<>>
Ptr(x) == <<x>>

\* Resource paths are opaque tokens; the empty string is the empty tuple.
EmptyPath == <<>>

-----------------------------------------------------------------------------
(* Router: the tier limits and the first-match policy.                     *)

CloudTasksMaxCPUMillis == 500
CloudTasksMaxMemoryMiB == 512
CloudTasksMaxDurationSec == 600
CloudRunMaxCPUMillis == 4000
CloudRunMaxMemoryMiB == 8192
CloudRunMaxDurationSec == 3600

\* A mutant of FitsSimple: the limits are exclusive.
FitsSimpleExclusive(cpu, mem, dur) ==
    /\ cpu < CloudTasksMaxCPUMillis
    /\ mem < CloudTasksMaxMemoryMiB
    /\ dur < CloudTasksMaxDurationSec

\* A mutant of FitsSimple: an unset (zero) field is taken as unbounded.
FitsSimpleZeroUnbounded(cpu, mem, dur) ==
    /\ cpu > 0 /\ cpu <= CloudTasksMaxCPUMillis
    /\ mem > 0 /\ mem <= CloudTasksMaxMemoryMiB
    /\ dur > 0 /\ dur <= CloudTasksMaxDurationSec

\* "Cloud Tasks is used for SIMPLE jobs: <=500 mCPU, <=512 MiB, <=600 s."
FitsSimple(cpu, mem, dur) ==
    /\ cpu <= CloudTasksMaxCPUMillis
    /\ mem <= CloudTasksMaxMemoryMiB
    /\ dur <= CloudTasksMaxDurationSec

\* "Cloud Run Jobs is used for MEDIUM jobs: <=4000 mCPU, <=8192 MiB, <=3600 s."
FitsMedium(cpu, mem, dur) ==
    /\ cpu <= CloudRunMaxCPUMillis
    /\ mem <= CloudRunMaxMemoryMiB
    /\ dur <= CloudRunMaxDurationSec

\* The Router's policy: the limits are checked in ascending order, first match wins.
Router(cpu, mem, dur) ==
    IF FitsSimple(cpu, mem, dur) THEN AssignedServiceCloudTasks
    ELSE IF FitsMedium(cpu, mem, dur) THEN AssignedServiceCloudRunJob
    ELSE AssignedServiceCloudBatch

\* The inputs tried: zero (unset), a small value, each limit and its successor, a
\* value beyond every limit.
CPUValues ==
    {0, 200, CloudTasksMaxCPUMillis, CloudTasksMaxCPUMillis + 1,
     CloudRunMaxCPUMillis, CloudRunMaxCPUMillis + 1, 2 * CloudRunMaxCPUMillis}
MemoryValues ==
    {0, 256, CloudTasksMaxMemoryMiB, CloudTasksMaxMemoryMiB + 1,
     CloudRunMaxMemoryMiB, CloudRunMaxMemoryMiB + 1, 2 * CloudRunMaxMemoryMiB}
DurationValues ==
    {0, 60, CloudTasksMaxDurationSec, CloudTasksMaxDurationSec + 1,
     CloudRunMaxDurationSec, CloudRunMaxDurationSec + 1}
ResourceTriples == CPUValues \X MemoryValues \X DurationValues

-----------------------------------------------------------------------------
(* batch.JobConfig, batch.JobResult and the providers a Dispatcher can hold. *)

\* The resource requirements the callers declare in a JobConfig.
ConfigResources == {<<200, 256, 60>>, <<8000, 16384, 0>>}
JobIDs == 1..MaxJobs
\* The jobs submitted to the deployed providers: the cheap job, under any JobID.
JobConfigs == [JobID : JobIDs, Resources : {<<200, 256, 60>>}]
NoConfig == [JobID |-> 0, Resources |-> <<0, 0, 0>>]

JobResult(path, status) == [CloudResourcePath |-> path, InitialStatus |-> status]

\* A nil batch.Provider interface value.
NilProvider == "nil"
\* The two providers of package gcp.
TasksProvider == "GCPCloudTasksProvider"
RunProvider == "GCPCloudRunProvider"
\* Arbitrary implementations of batch.Provider, as a test double would be.
StubProviders == {"stubA", "stubB"}

TaskName(i) == <<"tasks", i>>
JobName(id) == <<"jobs", id>>
ExecutionName(id) == <<"jobs", id, "executions", 1>>

-----------------------------------------------------------------------------
(* Dispatcher construction: New and its options.                           *)

\* An Option is the registration it performs on d.providers.
WithCloudTasks(p) == [svc |-> AssignedServiceCloudTasks, p |-> p]
WithCloudRunJobs(p) == [svc |-> AssignedServiceCloudRunJob, p |-> p]
WithCloudBatch(p) == [svc |-> AssignedServiceCloudBatch, p |-> p]

Options(ps) ==
    {WithCloudTasks(p) : p \in ps} \cup {WithCloudRunJobs(p) : p \in ps}
        \cup {WithCloudBatch(p) : p \in ps}

\* make(map[router.AssignedService]batch.Provider): the map as its set of entries.
EmptyMap == {}
Registered(m) == {e.svc : e \in m}

\* opt(d): d.providers[svc] = p replaces what the tier held.
ApplyOption(m, opt) == {e \in m : e.svc # opt.svc} \cup {opt}

\* for _, opt := range opts { opt(d) }
RECURSIVE ApplyOptions(_, _)
ApplyOptions(m, opts) ==
    IF opts = <<>> THEN m
    ELSE ApplyOptions(ApplyOption(m, Head(opts)), Tail(opts))

\* New: the error when nothing was registered; the logging loop then calls
\* p.ServiceType() on every registered value, a nil interface value included.
NewOutcome(opts) ==
    LET m == ApplyOptions(EmptyMap, opts) IN
    IF Cardinality(m) = 0
    THEN [built |-> "error", providers |-> EmptyMap,
          err |-> <<"dispatcher: at least one provider must be configured">>]
    ELSE IF \E e \in m : e.p = NilProvider
    THEN [built |-> "panic", providers |-> EmptyMap, err |-> NilErr]
    ELSE [built |-> "ok", providers |-> m, err |-> NilErr]

ErrNotRegistered(svc) == <<"dispatcher: no provider registered for service", svc>>

\* A mutant of ProviderFor: a missing tier falls back to some registered provider.
ProviderForFallback(m, svc) ==
    IF svc \in Registered(m)
    THEN [p |-> (CHOOSE e \in m : e.svc = svc).p, err |-> NilErr]
    ELSE IF m = {} THEN [p |-> NilProvider, err |-> ErrNotRegistered(svc)]
    ELSE [p |-> (CHOOSE e \in m : TRUE).p, err |-> NilErr]

\* Dispatcher.ProviderFor: p, ok := d.providers[svc]
ProviderFor(m, svc) ==
    IF svc \notin Registered(m)
    THEN [p |-> NilProvider, err |-> ErrNotRegistered(svc)]
    ELSE [p |-> (CHOOSE e \in m : e.svc = svc).p, err |-> NilErr]

-----------------------------------------------------------------------------
(* The Cloud Tasks service as the provider sees it.  backend.tasks maps    *)
(* the number of each task the queue holds to the task; backend.issued     *)
(* counts the names issued so far.                                         *)

\* taskspb.Task: LastAttempt is nil, or an attempt whose ResponseStatus is nil or
\* holds a code.
Task(name, lastAttempt) == [Name |-> name, LastAttempt |-> lastAttempt]
Attempt(responseStatus) == [ResponseStatus |-> responseStatus]
RespStatus(code) == [Code |-> code]

\* The response codes the HTTP target answers with: a success and a failure.
ResponseCodes == {200, 500}

HeldTaskNames(be) == {TaskName(i) : i \in DOMAIN be.tasks}
TaskNumber(name) == name[2]

\* client.CreateTask: the service names the task, or the call fails.
CreateTask(be) ==
    {[task |-> Nil, err |-> <<"Unavailable">>, be |-> be]}
    \cup
    IF be.issued < MaxTasks
    THEN LET n == be.issued + 1
             t == Task(TaskName(n), Nil)
         IN {[task |-> Ptr(t), err |-> NilErr,
              be |-> [be EXCEPT !.issued = n,
                                !.tasks = [i \in (DOMAIN @) \cup {n} |->
                                              IF i = n THEN t ELSE @[i]]]]}
    ELSE {}

\* client.GetTask: NotFound for a name the queue does not hold.
GetTask(be, name) ==
    IF name \in HeldTaskNames(be)
    THEN {[task |-> Ptr(be.tasks[TaskNumber(name)]), err |-> NilErr],
          [task |-> Nil, err |-> <<"Unavailable">>]}
    ELSE {[task |-> Nil, err |-> <<"NotFound">>]}

\* client.DeleteTask: removes a held task; NotFound for a name the queue does not
\* hold, a task deleted before included.
DeleteTask(be, name) ==
    IF name \in HeldTaskNames(be)
    THEN {[err |-> NilErr,
           be |-> [be EXCEPT !.tasks =
                       [i \in (DOMAIN @) \ {TaskNumber(name)} |-> @[i]]]],
          [err |-> <<"Unavailable">>, be |-> be]}
    ELSE {[err |-> <<"NotFound">>, be |-> be]}

\* A mutant of mapCloudTasksStatus: the success range includes 300.
mapCloudTasksStatusInclusive(task) ==
    IF task = Nil THEN JobStatusUnknown
    ELSE IF task[1].LastAttempt # Nil
    THEN IF task[1].LastAttempt[1].ResponseStatus # Nil
         THEN LET code == task[1].LastAttempt[1].ResponseStatus[1].Code IN
              IF code >= 200 /\ code <= 300 THEN JobStatusCompleted
              ELSE JobStatusFailed
         ELSE JobStatusRunning
    ELSE JobStatusPending

\* mapCloudTasksStatus
mapCloudTasksStatus(task) ==
    IF task = Nil THEN JobStatusUnknown
    ELSE IF task[1].LastAttempt # Nil
    THEN IF task[1].LastAttempt[1].ResponseStatus # Nil
         THEN LET code == task[1].LastAttempt[1].ResponseStatus[1].Code IN
              IF code >= 200 /\ code < 300 THEN JobStatusCompleted
              ELSE JobStatusFailed
         ELSE JobStatusRunning
    ELSE JobStatusPending

\* What a provider method hands back: the result pointer, a status, the error,
\* the backend it leaves behind and the backend calls it made, in order.
Outcome(res, status, err, be, trace) ==
    [res |-> res, status |-> status, err |-> err, be |-> be, trace |-> trace]

\* A mutant of TasksSubmitJob: the task's name is dropped from the result.
TasksSubmitJobNoName(config, be) ==
    {IF o.err # NilErr
     THEN Outcome(Nil, "", Wrap("failed to create Cloud Tasks task", o.err), o.be,
                  <<"CreateTask">>)
     ELSE Outcome(Ptr(JobResult(EmptyPath, JobStatusPending)), "", NilErr, o.be,
                  <<"CreateTask">>)
     : o \in CreateTask(be)}

\* GCPCloudTasksProvider.SubmitJob (json.Marshal of strings and maps cannot fail)
TasksSubmitJob(config, be) ==
    {IF o.err # NilErr
     THEN Outcome(Nil, "", Wrap("failed to create Cloud Tasks task", o.err), o.be,
                  <<"CreateTask">>)
     ELSE Outcome(Ptr(JobResult(o.task[1].Name, JobStatusPending)), "", NilErr, o.be,
                  <<"CreateTask">>)
     : o \in CreateTask(be)}

\* A mutant of TasksGetJobStatus: a failed lookup is reported as status Unknown.
TasksGetJobStatusSwallow(path, be) ==
    {IF o.err # NilErr
     THEN Outcome(Nil, JobStatusUnknown, NilErr, be, <<"GetTask">>)
     ELSE Outcome(Nil, mapCloudTasksStatus(o.task), NilErr, be, <<"GetTask">>)
     : o \in GetTask(be, path)}

\* GCPCloudTasksProvider.GetJobStatus
TasksGetJobStatus(path, be) ==
    {IF o.err # NilErr
     THEN Outcome(Nil, JobStatusUnknown,
                  Wrap("failed to get Cloud Tasks task", o.err), be, <<"GetTask">>)
     ELSE Outcome(Nil, mapCloudTasksStatus(o.task), NilErr, be, <<"GetTask">>)
     : o \in GetTask(be, path)}

\* GCPCloudTasksProvider.CancelJob
TasksCancelJob(path, be) ==
    {IF o.err # NilErr
     THEN Outcome(Nil, "", Wrap("failed to delete Cloud Tasks task", o.err), o.be,
                  <<"DeleteTask">>)
     ELSE Outcome(Nil, "", NilErr, o.be, <<"DeleteTask">>)
     : o \in DeleteTask(be, path)}

-----------------------------------------------------------------------------
(* The Cloud Run service as the provider sees it.  backend.jobs holds the  *)
(* ids of the jobs created; backend.execs maps a job's id to its latest    *)
(* execution once the job was run.                                         *)

ConditionSucceeded == "CONDITION_SUCCEEDED"
ConditionFailed == "CONDITION_FAILED"
ConditionStates == {ConditionSucceeded, ConditionFailed}
ConditionTypes == {"Completed", "Failed", "Cancelled", "Started"}
Condition(type, state) == [Type |-> type, State |-> state]
Conditions == [Type : ConditionTypes, State : ConditionStates]

\* runpb.Execution
Execution(name, conds, running, succeeded, failed) ==
    [Name |-> name, Conditions |-> conds, RunningCount |-> running,
     SucceededCount |-> succeeded, FailedCount |-> failed]

\* The loop over execution.GetConditions(): the status of the first condition, in
\* the list's order, that the switch returns for; "none" when the loop falls through.
RECURSIVE TerminalCondition(_)
TerminalCondition(conds) ==
    IF conds = <<>> THEN "none"
    ELSE LET c == Head(conds) IN
         IF c.Type = "Completed" /\ c.State = ConditionSucceeded
         THEN JobStatusCompleted
         ELSE IF c.Type = "Failed" /\ c.State = ConditionSucceeded
         THEN JobStatusFailed
         ELSE IF c.Type = "Cancelled" /\ c.State = ConditionSucceeded
         THEN JobStatusCancelled
         ELSE TerminalCondition(Tail(conds))

\* A mutant of mapCloudRunStatus: without running tasks the execution is Pending,
\* whatever the other counts.
mapCloudRunStatusNoCatchAll(exec) ==
    IF exec = Nil THEN JobStatusUnknown
    ELSE IF TerminalCondition(exec[1].Conditions) # "none"
    THEN TerminalCondition(exec[1].Conditions)
    ELSE IF exec[1].RunningCount > 0 THEN JobStatusRunning
    ELSE JobStatusPending

\* mapCloudRunStatus
mapCloudRunStatus(exec) ==
    IF exec = Nil THEN JobStatusUnknown
    ELSE IF TerminalCondition(exec[1].Conditions) # "none"
    THEN TerminalCondition(exec[1].Conditions)
    ELSE IF exec[1].RunningCount > 0 THEN JobStatusRunning
    ELSE IF exec[1].RunningCount = 0 /\ exec[1].SucceededCount = 0
            /\ exec[1].FailedCount = 0
    THEN JobStatusPending
    ELSE JobStatusRunning

HeldJobNames(be) == {JobName(id) : id \in be.jobs}
JobNumber(name) == name[2]

\* The states the service reports for an execution over its life.
ExecutionSnapshots(name) ==
    {Execution(name, <<>>, 0, 0, 0),
     Execution(name, <<>>, 1, 0, 0),
     Execution(name, <<Condition("Completed", ConditionSucceeded)>>, 0, 1, 0),
     Execution(name, <<Condition("Failed", ConditionSucceeded)>>, 0, 0, 1),
     Execution(name, <<Condition("Completed", ConditionFailed)>>, 0, 0, 1),
     Execution(name, <<Condition("Cancelled", ConditionSucceeded)>>, 0, 0, 0)}

\* The service's own view of an execution that has ended.
ExecutionEnded(e) ==
    \E i \in 1..Len(e.Conditions) :
        e.Conditions[i].Type \in {"Completed", "Failed", "Cancelled"}

WithJob(be, id) == [be EXCEPT !.jobs = @ \cup {id}]
WithExecution(be, id, e) ==
    [be EXCEPT !.execs = [j \in (DOMAIN @) \cup {id} |-> IF j = id THEN e ELSE @[j]]]

\* jobsClient.CreateJob followed by createOp.Wait: the call fails, the wait fails
\* (with the job created or not), or the job is created.
CreateJob(be, id) ==
    IF id \in be.jobs
    THEN {[createErr |-> <<"AlreadyExists">>, waitErr |-> NilErr, job |-> EmptyPath,
           be |-> be]}
    ELSE {[createErr |-> <<"Unavailable">>, waitErr |-> NilErr, job |-> EmptyPath,
           be |-> be],
          [createErr |-> NilErr, waitErr |-> <<"Unavailable">>, job |-> EmptyPath,
           be |-> be],
          [createErr |-> NilErr, waitErr |-> <<"DeadlineExceeded">>, job |-> EmptyPath,
           be |-> WithJob(be, id)],
          [createErr |-> NilErr, waitErr |-> NilErr, job |-> JobName(id),
           be |-> WithJob(be, id)]}

\* jobsClient.RunJob followed by runOp.Metadata: the call fails, or an execution
\* starts and its metadata can or cannot be read.
RunJob(be, name) ==
    IF name \notin HeldJobNames(be)
    THEN {[err |-> <<"NotFound">>, metaErr |-> NilErr, be |-> be]}
    ELSE LET id == JobNumber(name)
             started == WithExecution(be, id, Execution(ExecutionName(id), <<>>, 0, 0, 0))
         IN {[err |-> <<"Unavailable">>, metaErr |-> NilErr, be |-> be],
             [err |-> NilErr, metaErr |-> NilErr, be |-> started],
             [err |-> NilErr, metaErr |-> <<"no metadata">>, be |-> started]}

\* executionClient.ListExecutions and the first it.Next(): the latest execution
\* of the job; iterator.Done when there is none, an error for an unknown parent.
FirstExecution(be, parent) ==
    IF parent \notin HeldJobNames(be)
    THEN {[exec |-> Nil, err |-> <<"NotFound">>],
          [exec |-> Nil, err |-> <<"iterator.Done">>]}
    ELSE IF JobNumber(parent) \notin DOMAIN be.execs
    THEN {[exec |-> Nil, err |-> <<"iterator.Done">>]}
    ELSE {[exec |-> Ptr(be.execs[JobNumber(parent)]), err |-> NilErr],
          [exec |-> Nil, err |-> <<"Unavailable">>]}

\* executionClient.CancelExecution followed by cancelOp.Wait.  The service is
\* taken to acknowledge the cancel of an execution that has ended, the reading
\* most favourable to the provider.
CancelExecution(be, id) ==
    LET e == be.execs[id]
        cancelled == WithExecution(be, id,
            [e EXCEPT !.Conditions = <<Condition("Cancelled", ConditionSucceeded)>>,
                      !.RunningCount = 0])
    IN {[err |-> <<"Unavailable">>, waitErr |-> NilErr, be |-> be]}
       \cup
       IF ExecutionEnded(e)
       THEN {[err |-> NilErr, waitErr |-> NilErr, be |-> be]}
       ELSE {[err |-> NilErr, waitErr |-> NilErr, be |-> cancelled],
             [err |-> NilErr, waitErr |-> <<"DeadlineExceeded">>, be |-> cancelled]}

\* A mutant of RunSubmitJob: a failure to read the execution metadata is returned
\* as the error of the submission.
RunSubmitJobMetadataFails(config, be) ==
    UNION {
        IF c.createErr # NilErr
        THEN {Outcome(Nil, "", Wrap("failed to create Cloud Run job", c.createErr),
                      c.be, <<"CreateJob">>)}
        ELSE IF c.waitErr # NilErr
        THEN {Outcome(Nil, "",
                      Wrap("failed waiting for Cloud Run job creation", c.waitErr),
                      c.be, <<"CreateJob", "Wait">>)}
        ELSE {IF r.err # NilErr
              THEN Outcome(Nil, "", Wrap("failed to run Cloud Run job", r.err), r.be,
                           <<"CreateJob", "Wait", "RunJob">>)
              ELSE IF r.metaErr # NilErr
              THEN Outcome(Nil, "", Wrap("failed to get execution metadata", r.metaErr),
                           r.be, <<"CreateJob", "Wait", "RunJob", "Metadata">>)
              ELSE Outcome(Ptr(JobResult(c.job, JobStatusRunning)), "", NilErr, r.be,
                           <<"CreateJob", "Wait", "RunJob", "Metadata">>)
              : r \in RunJob(c.be, c.job)}
        : c \in CreateJob(be, config.JobID)}

\* GCPCloudRunProvider.SubmitJob: CreateJob, its Wait, then RunJob; the result
\* is the same whether or not the execution metadata can be read.
RunSubmitJob(config, be) ==
    UNION {
        IF c.createErr # NilErr
        THEN {Outcome(Nil, "", Wrap("failed to create Cloud Run job", c.createErr),
                      c.be, <<"CreateJob">>)}
        ELSE IF c.waitErr # NilErr
        THEN {Outcome(Nil, "",
                      Wrap("failed waiting for Cloud Run job creation", c.waitErr),
                      c.be, <<"CreateJob", "Wait">>)}
        ELSE {IF r.err # NilErr
              THEN Outcome(Nil, "", Wrap("failed to run Cloud Run job", r.err), r.be,
                           <<"CreateJob", "Wait", "RunJob">>)
              ELSE Outcome(Ptr(JobResult(c.job, JobStatusRunning)), "", NilErr, r.be,
                           <<"CreateJob", "Wait", "RunJob", "Metadata">>)
              : r \in RunJob(c.be, c.job)}
        : c \in CreateJob(be, config.JobID)}

\* GCPCloudRunProvider.GetJobStatus
RunGetJobStatus(path, be) ==
    {IF o.err # NilErr
     THEN Outcome(Nil, JobStatusUnknown,
                  Wrap("failed to list Cloud Run executions", o.err), be,
                  <<"ListExecutions">>)
     ELSE Outcome(Nil, mapCloudRunStatus(o.exec), NilErr, be, <<"ListExecutions">>)
     : o \in FirstExecution(be, path)}

\* GCPCloudRunProvider.CancelJob
RunCancelJob(path, be) ==
    UNION {
        IF o.err # NilErr
        THEN {Outcome(Nil, "", Wrap("no executions found for Cloud Run job", o.err),
                      be, <<"ListExecutions">>)}
        ELSE {IF c.err # NilErr
              THEN Outcome(Nil, "", Wrap("failed to cancel Cloud Run execution", c.err),
                           c.be, <<"ListExecutions", "CancelExecution">>)
              ELSE IF c.waitErr # NilErr
              THEN Outcome(Nil, "",
                           Wrap("failed waiting for Cloud Run execution cancellation",
                                c.waitErr),
                           c.be, <<"ListExecutions", "CancelExecution", "Wait">>)
              ELSE Outcome(Nil, "", NilErr, c.be,
                           <<"ListExecutions", "CancelExecution", "Wait">>)
              : c \in CancelExecution(be, JobNumber(path))}
        : o \in FirstExecution(be, path)}

-----------------------------------------------------------------------------
(* Stub providers: any implementation of batch.Provider may return any     *)
(* result and any error.                                                   *)

StubPath(p) == <<"stub", p>>
StubErr(p) == <<"stub failure", p>>

StubSubmitJob(p, config, be) ==
    {Outcome(Ptr(JobResult(StubPath(p), JobStatusPending)), "", NilErr, be, <<>>),
     Outcome(Nil, "", StubErr(p), be, <<>>)}

StubGetJobStatus(p, path, be) ==
    {Outcome(Nil, JobStatusCompleted, NilErr, be, <<>>),
     Outcome(Nil, JobStatusUnknown, NilErr, be, <<>>),
     Outcome(Nil, JobStatusRunning, StubErr(p), be, <<>>)}

StubCancelJob(p, path, be) ==
    {Outcome(Nil, "", NilErr, be, <<>>), Outcome(Nil, "", StubErr(p), be, <<>>)}

\* Dynamic dispatch of the batch.Provider methods on the value the registry holds.
ProviderSubmitJob(p, config, be) ==
    CASE p = TasksProvider -> TasksSubmitJob(config, be)
      [] p = RunProvider -> RunSubmitJob(config, be)
      [] OTHER -> StubSubmitJob(p, config, be)

ProviderGetJobStatus(p, path, be) ==
    CASE p = TasksProvider -> TasksGetJobStatus(path, be)
      [] p = RunProvider -> RunGetJobStatus(path, be)
      [] OTHER -> StubGetJobStatus(p, path, be)

ProviderCancelJob(p, path, be) ==
    CASE p = TasksProvider -> TasksCancelJob(path, be)
      [] p = RunProvider -> RunCancelJob(path, be)
      [] OTHER -> StubCancelJob(p, path, be)

-----------------------------------------------------------------------------
(* The Dispatcher's methods.  A result carries the provider calls made,    *)
(* what is returned to the caller, the backend and the registry left       *)
(* behind, and whether the call ended in a nil dereference.                *)

DResult(cs, res, status, err, be, m, panic) ==
    [calls |-> cs, res |-> res, status |-> status, err |-> err, be |-> be,
     providers |-> m, panic |-> panic]

\* One invocation of a provider method: its receiver, its arguments and what it
\* returned.
Call(p, method, config, path, o) ==
    [p |-> p, method |-> method, config |-> config, path |-> path,
     res |-> o.res, status |-> o.status, err |-> o.err, trace |-> o.trace]

\* return p.SubmitJob(ctx, config)
ForwardSubmitJob(p, m, config, be) ==
    IF p = NilProvider
    THEN {DResult(<<>>, Nil, "", NilErr, be, m, TRUE)}
    ELSE {DResult(<<Call(p, "SubmitJob", config, EmptyPath, o)>>,
                  o.res, o.status, o.err, o.be, m, FALSE)
          : o \in ProviderSubmitJob(p, config, be)}

\* return p.GetJobStatus(ctx, cloudResourcePath)
ForwardGetJobStatus(p, m, path, be) ==
    IF p = NilProvider
    THEN {DResult(<<>>, Nil, "", NilErr, be, m, TRUE)}
    ELSE {DResult(<<Call(p, "GetJobStatus", NoConfig, path, o)>>,
                  o.res, o.status, o.err, o.be, m, FALSE)
          : o \in ProviderGetJobStatus(p, path, be)}

\* A mutant of ForwardCancelJob: the provider's error is translated.
ForwardCancelJobWrapped(p, m, path, be) ==
    {DResult(<<Call(p, "CancelJob", NoConfig, path, o)>>, o.res, o.status,
             IF o.err = NilErr THEN NilErr ELSE Wrap("dispatcher: cancel failed", o.err),
             o.be, m, FALSE)
     : o \in ProviderCancelJob(p, path, be)}

\* A mutant of ForwardCancelJob: the tier's registration is dropped after a cancel.
ForwardCancelJobUnregister(p, m, path, be) ==
    {DResult(<<Call(p, "CancelJob", NoConfig, path, o)>>,
             o.res, o.status, o.err, o.be, {e \in m : e.p # p}, FALSE)
     : o \in ProviderCancelJob(p, path, be)}

\* return p.CancelJob(ctx, cloudResourcePath)
ForwardCancelJob(p, m, path, be) ==
    IF p = NilProvider
    THEN {DResult(<<>>, Nil, "", NilErr, be, m, TRUE)}
    ELSE {DResult(<<Call(p, "CancelJob", NoConfig, path, o)>>,
                  o.res, o.status, o.err, o.be, m, FALSE)
          : o \in ProviderCancelJob(p, path, be)}

\* Dispatcher.SubmitJob
DispatcherSubmitJob(m, svc, config, be) ==
    LET pf == ProviderFor(m, svc) IN
    IF pf.err # NilErr
    THEN {DResult(<<>>, Nil, "", pf.err, be, m, FALSE)}
    ELSE ForwardSubmitJob(pf.p, m, config, be)

\* Dispatcher.GetJobStatus
DispatcherGetJobStatus(m, svc, path, be) ==
    LET pf == ProviderFor(m, svc) IN
    IF pf.err # NilErr
    THEN {DResult(<<>>, Nil, JobStatusUnknown, pf.err, be, m, FALSE)}
    ELSE ForwardGetJobStatus(pf.p, m, path, be)

\* Dispatcher.CancelJob
DispatcherCancelJob(m, svc, path, be) ==
    LET pf == ProviderFor(m, svc) IN
    IF pf.err # NilErr
    THEN {DResult(<<>>, Nil, "", pf.err, be, m, FALSE)}
    ELSE ForwardCancelJob(pf.p, m, path, be)

Methods == {"SubmitJob", "GetJobStatus", "CancelJob"}

\* The whole of a Dispatcher method.
DispatcherCall(op, m, svc, config, path, be) ==
    CASE op = "SubmitJob" -> DispatcherSubmitJob(m, svc, config, be)
      [] op = "GetJobStatus" -> DispatcherGetJobStatus(m, svc, path, be)
      [] op = "CancelJob" -> DispatcherCancelJob(m, svc, path, be)

\* The rest of a Dispatcher method once ProviderFor returned p.
ForwardCall(op, p, m, config, path, be) ==
    CASE op = "SubmitJob" -> ForwardSubmitJob(p, m, config, be)
      [] op = "GetJobStatus" -> ForwardGetJobStatus(p, m, path, be)
      [] op = "CancelJob" -> ForwardCancelJob(p, m, path, be)

-----------------------------------------------------------------------------
(* State, inputs and actions.                                              *)

Callers == 1..MaxCallers
Idle == [op |-> "idle", svc |-> "", config |-> NoConfig, path |-> EmptyPath,
         p |-> NilProvider]
NoLast == [op |-> "none", svc |-> "", config |-> NoConfig, path |-> EmptyPath,
           opts |-> <<>>, res |-> Nil, status |-> "", err |-> NilErr,
           panic |-> FALSE]
EmptyBackend == [tasks |-> <<>>, issued |-> 0, jobs |-> {}, execs |-> <<>>]

OptionSeqs(ps) == UNION {[1..n -> Options(ps)] : n \in 0..MaxOpts}

\* Paths the callers pass to a tier: every name the tier's backend can issue, a
\* name it never issues, and a name of another backend.
Paths(svc) ==
    CASE svc = AssignedServiceCloudTasks ->
             {TaskName(i) : i \in 0..MaxTasks} \cup {JobName(1)}
      [] svc = AssignedServiceCloudRunJob ->
             {JobName(j) : j \in 0..MaxJobs} \cup {TaskName(1)}
      [] OTHER -> {TaskName(1)}
StubPaths == {StubPath(p) : p \in StubProviders}

\* The deployment's wiring: one provider of package gcp per tier it serves.
DeployedOpts == <<WithCloudTasks(TasksProvider), WithCloudRunJobs(RunProvider)>>

\* The aggregator has not run, and no task was mapped.
InitRest ==
    /\ loaded = Nil
    /\ agg = Nil
    /\ objects = Nil
    /\ queued = Nil

\* Nothing was listed, constructed, calculated, processed or retried.
InitOps ==
    /\ listing = Nil
    /\ construct = Nil
    /\ chunk = Nil
    /\ proc = Nil
    /\ retry = Nil

InitExt ==
    /\ InitRest
    /\ InitOps

InitIdle ==
    /\ InitExt
    /\ inflight = [g \in Callers |-> Idle]
    /\ calls = <<>>
    /\ last = NoLast
    /\ backend = EmptyBackend
    /\ resources = <<0, 0, 0>>
    /\ assigned = "none"
    /\ execution = Nil
    /\ mapped = "none"

\* No Dispatcher was built and nothing was routed, mapped or sent to a backend.
InitCore ==
    /\ built = "unbuilt"
    /\ providers = EmptyMap
    /\ inflight = [g \in Callers |-> Idle]
    /\ calls = <<>>
    /\ last = NoLast
    /\ backend = EmptyBackend
    /\ resources = <<0, 0, 0>>
    /\ assigned = "none"
    /\ execution = Nil
    /\ mapped = "none"

\* Before dispatcher.New is called.
InitDispatcher ==
    /\ built = "unbuilt"
    /\ providers = EmptyMap
    /\ InitIdle

\* After dispatcher.New(WithCloudTasks(..), WithCloudRunJobs(..)) returned.
Init ==
    /\ built = NewOutcome(DeployedOpts).built
    /\ providers = NewOutcome(DeployedOpts).providers
    /\ InitIdle

\* d, err := dispatcher.New(opts...)
New(opts) ==
    /\ built = "unbuilt"
    /\ LET o == NewOutcome(opts) IN
       /\ built' = o.built
       /\ providers' = o.providers
       /\ last' = [NoLast EXCEPT !.op = "New", !.opts = opts, !.err = o.err,
                                 !.panic = (o.built = "panic")]
    /\ calls' = <<>>
    /\ UNCHANGED <<inflight, backend, resources, assigned, execution, mapped>>
    /\ UNCHANGED <<ext, rest>>

\* p, err := d.ProviderFor(svc)
CallProviderFor(svc) ==
    /\ built = "ok"
    /\ LET pf == ProviderFor(providers, svc) IN
       last' = [NoLast EXCEPT !.op = "ProviderFor", !.svc = svc,
                              !.res = IF pf.p = NilProvider THEN Nil ELSE Ptr(pf.p),
                              !.err = pf.err]
    /\ calls' = <<>>
    /\ UNCHANGED <<built, inflight, providers, backend, resources, assigned,
                   execution, mapped>>
    /\ UNCHANGED <<ext, rest>>

\* A Dispatcher method returns r to its caller.
Return(op, svc, config, path, r) ==
    /\ last' = [NoLast EXCEPT !.op = op, !.svc = svc, !.config = config,
                              !.path = path, !.res = r.res, !.status = r.status,
                              !.err = r.err, !.panic = r.panic]
    /\ calls' = r.calls
    /\ backend' = r.be
    /\ providers' = r.providers
    /\ built' = IF r.panic THEN "panic" ELSE built

\* d.SubmitJob(ctx, svc, config), from call to return.
SubmitJob(svc, config) ==
    /\ built = "ok"
    /\ \E r \in DispatcherSubmitJob(providers, svc, config, backend) :
           Return("SubmitJob", svc, config, EmptyPath, r)
    /\ UNCHANGED <<inflight, resources, assigned, execution, mapped>>
    /\ UNCHANGED <<ext, rest>>

\* d.GetJobStatus(ctx, svc, path), from call to return.
GetJobStatus(svc, path) ==
    /\ built = "ok"
    /\ \E r \in DispatcherGetJobStatus(providers, svc, path, backend) :
           Return("GetJobStatus", svc, NoConfig, path, r)
    /\ UNCHANGED <<inflight, resources, assigned, execution, mapped>>
    /\ UNCHANGED <<ext, rest>>

\* d.CancelJob(ctx, svc, path), from call to return.
CancelJob(svc, path) ==
    /\ built = "ok"
    /\ \E r \in DispatcherCancelJob(providers, svc, path, backend) :
           Return("CancelJob", svc, NoConfig, path, r)
    /\ UNCHANGED <<inflight, resources, assigned, execution, mapped>>
    /\ UNCHANGED <<ext, rest>>

\* Goroutine g enters a Dispatcher method and runs it up to the return of
\* ProviderFor: the method returns at once when no provider is registered.
Begin(g, op, svc, config, path) ==
    /\ built = "ok"
    /\ inflight[g] = Idle
    /\ IF ProviderFor(providers, svc).err # NilErr
       THEN /\ \E r \in DispatcherCall(op, providers, svc, config, path, backend) :
                   Return(op, svc, config, path, r)
            /\ UNCHANGED inflight
       ELSE /\ inflight' = [inflight EXCEPT ![g] =
                   [op |-> op, svc |-> svc, config |-> config, path |-> path,
                    p |-> ProviderFor(providers, svc).p]]
            /\ UNCHANGED <<built, providers, calls, last, backend>>
    /\ UNCHANGED <<resources, assigned, execution, mapped>>
    /\ UNCHANGED <<ext, rest>>

\* Goroutine g calls the provider it looked up and returns what it got.
Finish(g) ==
    /\ built = "ok"
    /\ inflight[g] # Idle
    /\ LET c == inflight[g] IN
       \E r \in ForwardCall(c.op, c.p, providers, c.config, c.path, backend) :
           Return(c.op, c.svc, c.config, c.path, r)
    /\ inflight' = [inflight EXCEPT ![g] = Idle]
    /\ UNCHANGED <<resources, assigned, execution, mapped>>
    /\ UNCHANGED <<ext, rest>>

\* The queue dispatches task i to its HTTP target.
TaskDispatched(i) ==
    /\ i \in DOMAIN backend.tasks
    /\ backend.tasks[i].LastAttempt = Nil
    /\ backend' = [backend EXCEPT !.tasks[i].LastAttempt = Ptr(Attempt(Nil))]
    /\ UNCHANGED <<built, inflight, providers, calls, last, resources, assigned,
                   execution, mapped>>
    /\ UNCHANGED <<ext, rest>>

\* The HTTP target answers the attempt of task i with a status code.
TaskResponded(i, code) ==
    /\ i \in DOMAIN backend.tasks
    /\ backend.tasks[i].LastAttempt = Ptr(Attempt(Nil))
    /\ backend' = [backend EXCEPT
                      !.tasks[i].LastAttempt = Ptr(Attempt(Ptr(RespStatus(code))))]
    /\ UNCHANGED <<built, inflight, providers, calls, last, resources, assigned,
                   execution, mapped>>
    /\ UNCHANGED <<ext, rest>>

\* Cloud Run moves the execution of job id on.
ExecutionProgress(id, e) ==
    /\ id \in DOMAIN backend.execs
    /\ ~ExecutionEnded(backend.execs[id])
    /\ e # backend.execs[id]
    /\ backend' = WithExecution(backend, id, e)
    /\ UNCHANGED <<built, inflight, providers, calls, last, resources, assigned,
                   execution, mapped>>
    /\ UNCHANGED <<ext, rest>>

Next ==
    \/ \E svc \in AssignedService, config \in JobConfigs : SubmitJob(svc, config)
    \/ \E svc \in AssignedService : \E path \in Paths(svc) : GetJobStatus(svc, path)
    \/ \E svc \in AssignedService : \E path \in Paths(svc) : CancelJob(svc, path)
    \/ \E i \in 1..MaxTasks : TaskDispatched(i)
    \/ \E i \in 1..MaxTasks, code \in ResponseCodes : TaskResponded(i, code)
    \/ \E id \in JobIDs : \E e \in ExecutionSnapshots(ExecutionName(id)) :
           ExecutionProgress(id, e)

\* The gcp providers behind a deployed Dispatcher, and their backends.
Spec == Init /\ [][Next]_vars

StubConfigs == {[JobID |-> 1, Resources |-> r] : r \in ConfigResources}

NextDispatcher ==
    \/ \E opts \in OptionSeqs(StubProviders \cup {NilProvider}) : New(opts)
    \/ \E svc \in AssignedService : CallProviderFor(svc)
    \/ \E svc \in AssignedService, config \in StubConfigs : SubmitJob(svc, config)
    \/ \E svc \in AssignedService, path \in StubPaths : GetJobStatus(svc, path)
    \/ \E svc \in AssignedService, path \in StubPaths : CancelJob(svc, path)

\* dispatcher.New with any options, then Dispatcher calls one after another.
SpecDispatcher == InitDispatcher /\ [][NextDispatcher]_vars

\* The option lists the concurrent callers' Dispatcher is built from: one tier,
\* one tier registered twice, two tiers, three tiers.
Wirings ==
    {<<WithCloudTasks("stubA")>>,
     <<WithCloudTasks("stubA"), WithCloudTasks("stubB")>>,
     <<WithCloudTasks("stubA"), WithCloudRunJobs("stubB")>>,
     <<WithCloudBatch("stubB"), WithCloudRunJobs("stubA"), WithCloudTasks("stubA")>>}

NextConcurrent ==
    \/ \E opts \in Wirings : New(opts)
    \/ \E g \in Callers, op \in Methods, svc \in AssignedService :
           Begin(g, op, svc, [JobID |-> 1, Resources |-> <<200, 256, 60>>],
                 StubPath("stubA"))
    \/ \E g \in Callers : Finish(g)

\* dispatcher.New, then Dispatcher calls from several goroutines, interleaved
\* between the registry lookup and the provider call.
SpecConcurrent == InitDispatcher /\ [][NextConcurrent]_vars

-----------------------------------------------------------------------------
(* The pure functions, applied to inputs drawn in the initial state.       *)

InitRouter ==
    /\ InitExt
    /\ built = "unbuilt"
    /\ providers = EmptyMap
    /\ inflight = [g \in Callers |-> Idle]
    /\ calls = <<>>
    /\ last = NoLast
    /\ backend = EmptyBackend
    /\ resources \in ResourceTriples
    /\ assigned = "none"
    /\ execution = Nil
    /\ mapped = "none"

\* The Router decides the tier of the declared resources.
Route ==
    /\ assigned = "none"
    /\ assigned' = Router(resources[1], resources[2], resources[3])
    /\ UNCHANGED <<built, inflight, providers, calls, last, backend, resources,
                   execution, mapped>>
    /\ UNCHANGED <<ext, rest>>

SpecRouter == InitRouter /\ [][Route]_vars

CondLists == UNION {[1..n -> Conditions] : n \in 0..MaxConds}
Executions ==
    {Ptr(Execution(ExecutionName(1), cs, r, s, f)) :
        cs \in CondLists, r \in 0..1, s \in 0..1, f \in 0..1}

InitMapRun ==
    /\ InitExt
    /\ built = "unbuilt"
    /\ providers = EmptyMap
    /\ inflight = [g \in Callers |-> Idle]
    /\ calls = <<>>
    /\ last = NoLast
    /\ backend = EmptyBackend
    /\ resources = <<0, 0, 0>>
    /\ assigned = "none"
    /\ execution \in Executions \cup {Nil}
    /\ mapped = "none"

\* mapCloudRunStatus(execution)
MapRun ==
    /\ mapped = "none"
    /\ mapped' = mapCloudRunStatus(execution)
    /\ UNCHANGED <<built, inflight, providers, calls, last, backend, resources,
                   assigned, execution>>
    /\ UNCHANGED <<ext, rest>>

SpecMapRun == InitMapRun /\ [][MapRun]_vars

-----------------------------------------------------------------------------
(* The claims.                                                             *)

\* C1: a Dispatcher call (ProviderFor, SubmitJob, GetJobStatus, CancelJob) for a
\* tier with no registered provider returns a non-nil error and no result, does
\* not crash, invokes no provider method, and GetJobStatus returns status Unknown
\* with the error.
C1_UnregisteredTierFails ==
    (built # "unbuilt" /\ last.op \in Methods \cup {"ProviderFor"}
        /\ last.svc \notin Registered(providers))
    => /\ last.err # NilErr
       /\ last.res = Nil
       /\ ~last.panic
       /\ calls = <<>>
       /\ (last.op = "GetJobStatus" => last.status = JobStatusUnknown)

\* A GetJobStatus call for an unregistered tier has returned.
C1_Witness ==
    /\ built = "ok"
    /\ last.op = "GetJobStatus"
    /\ last.svc \notin Registered(providers)
    /\ last.status = JobStatusUnknown
    /\ last.err = ErrNotRegistered(last.svc)

\* C2: for a tier with a registered provider, SubmitJob, GetJobStatus and
\* CancelJob make exactly one call, of the same-named method, on the provider
\* registered for that tier, pass the caller's arguments unchanged and return the
\* provider's result, status and error unchanged.
C2_PureForwarding ==
    (last.op \in Methods /\ last.svc \in Registered(providers))
    => /\ ~last.panic
       /\ Len(calls) = 1
       /\ [svc |-> last.svc, p |-> calls[1].p] \in providers
       /\ calls[1].method = last.op
       /\ calls[1].config = last.config
       /\ calls[1].path = last.path
       /\ last.res = calls[1].res
       /\ last.status = calls[1].status
       /\ last.err = calls[1].err

\* A CancelJob call was forwarded to stubB, with stubA registered for another
\* tier, and stubB's error came back as it was.
C2_Witness ==
    /\ last.op = "CancelJob"
    /\ Len(calls) = 1
    /\ calls[1].p = "stubB"
    /\ \E e \in providers : e.p = "stubA"
    /\ last.err = StubErr("stubB")

\* C3: New with options that register nothing returns an error and no
\* Dispatcher; with at least one registration it returns a Dispatcher and no
\* error.
C3_NewFailsOnlyWithoutProviders ==
    last.op = "New"
    => IF ApplyOptions(EmptyMap, last.opts) = EmptyMap
       THEN built = "error" /\ last.err # NilErr /\ providers = EmptyMap
       ELSE built = "ok" /\ last.err = NilErr /\ ~last.panic

\* C4: a tier never has two providers, the registry a built Dispatcher holds is
\* never modified by any step of any goroutine, and a call in flight goes to the
\* provider the registry holds for its tier.
C4_RegistryFixed ==
    /\ [](\A e1, e2 \in providers : e1.svc = e2.svc => e1 = e2)
    /\ [][built = "ok" => (built' = "ok" /\ providers' = providers)]_vars
    /\ [](\A g \in Callers :
            inflight[g] # Idle
            => [svc |-> inflight[g].svc, p |-> inflight[g].p] \in providers)

\* Two goroutines are between lookup and provider call, for different tiers and
\* providers, after an earlier call has returned.
C4_Witness ==
    /\ built = "ok"
    /\ \E g1, g2 \in Callers :
          /\ inflight[g1] # Idle /\ inflight[g2] # Idle
          /\ inflight[g1].svc # inflight[g2].svc
          /\ inflight[g1].p # inflight[g2].p
    /\ last.op \in Methods
    /\ Len(calls) = 1

\* C5: the Router returns exactly one tier for every triple: Cloud Tasks when
\* cpu <= 500, memory <= 512 and duration <= 600; otherwise Cloud Run Jobs when
\* cpu <= 4000, memory <= 8192 and duration <= 3600; otherwise Cloud Batch.
C5_RouterThresholds ==
    assigned # "none"
    => LET cpu == resources[1]
           mem == resources[2]
           dur == resources[3]
           cheap == cpu <= 500 /\ mem <= 512 /\ dur <= 600
           medium == cpu <= 4000 /\ mem <= 8192 /\ dur <= 3600
       IN /\ assigned \in AssignedService
          /\ (assigned = AssignedServiceCloudTasks) <=> cheap
          /\ (assigned = AssignedServiceCloudRunJob) <=> (~cheap /\ medium)
          /\ (assigned = AssignedServiceCloudBatch) <=> ~medium

\* A triple on the cheap tier's limits in every field was routed.
C5_Witness ==
    /\ resources = <<500, 512, 600>>
    /\ assigned = AssignedServiceCloudTasks

\* C6: an unset (zero) field counts as within the lowest limit: (0,0,0) goes to
\* Cloud Tasks, (8000,16384,unset) to Cloud Batch, and the tier is the lowest one
\* whose limits every non-zero field meets.
C6_ZeroIsLowestTier ==
    assigned # "none"
    => LET Within(x, limit) == x = 0 \/ x <= limit
           cheap == /\ Within(resources[1], 500)
                    /\ Within(resources[2], 512)
                    /\ Within(resources[3], 600)
           medium == /\ Within(resources[1], 4000)
                     /\ Within(resources[2], 8192)
                     /\ Within(resources[3], 3600)
       IN /\ resources = <<0, 0, 0>> => assigned = AssignedServiceCloudTasks
          /\ resources = <<8000, 16384, 0>> => assigned = AssignedServiceCloudBatch
          /\ assigned = IF cheap THEN AssignedServiceCloudTasks
                        ELSE IF medium THEN AssignedServiceCloudRunJob
                        ELSE AssignedServiceCloudBatch

\* The job with cpu and memory beyond the medium tier and no duration was routed.
C6_Witness ==
    /\ resources = <<8000, 16384, 0>>
    /\ assigned = AssignedServiceCloudBatch

\* C7: a job with cpu=200, memory=256, duration=60 is routed to the cheap tier,
\* Dispatcher.SubmitJob for that tier calls the Cloud Tasks provider, and every
\* successful submission returns the non-empty task name the backend issued with
\* InitialStatus Pending.
C7_CheapPathEndToEnd ==
    (last.op = "SubmitJob" /\ last.config.Resources = <<200, 256, 60>>
        /\ last.svc = Router(200, 256, 60))
    => /\ last.svc = AssignedServiceCloudTasks
       /\ Len(calls) = 1
       /\ calls[1].p = TasksProvider
       /\ calls[1].method = "SubmitJob"
       /\ last.err = NilErr
          => /\ last.res # Nil
             /\ last.res[1].CloudResourcePath # EmptyPath
             /\ last.res[1].CloudResourcePath = TaskName(backend.issued)
             /\ last.res[1].CloudResourcePath \in HeldTaskNames(backend)
             /\ last.res[1].InitialStatus = JobStatusPending

\* The cheap job was submitted through the Dispatcher and the queue named its task.
C7_Witness ==
    /\ last.op = "SubmitJob"
    /\ last.config.Resources = <<200, 256, 60>>
    /\ last.svc = AssignedServiceCloudTasks
    /\ last.err = NilErr
    /\ last.res = Ptr(JobResult(TaskName(1), JobStatusPending))
    /\ calls[1].trace = <<"CreateTask">>

\* The backend call behind the error failed for a reason of its own, not because
\* of the state of the resource.
TransientFailure(err) == Cause(err) \in {"Unavailable", "DeadlineExceeded"}

\* C8: a CancelJob that follows a successful CancelJob on the same tier and
\* resource path returns no error, for every provider.
C8_CancelTwiceSucceeds ==
    [][(/\ last.op = "CancelJob" /\ last.err = NilErr
        /\ last.svc \in Registered(providers)
        /\ last'.op = "CancelJob" /\ last'.svc = last.svc /\ last'.path = last.path)
       => (last'.err = NilErr \/ TransientFailure(last'.err))]_vars

\* What the backend behind provider p holds under path.
Recognised(p, path, be) ==
    CASE p = TasksProvider -> path \in HeldTaskNames(be)
      [] p = RunProvider -> path \in HeldJobNames(be)
      [] OTHER -> FALSE

\* C9: GetJobStatus on a resource path the provider's backend does not hold
\* returns a non-nil error, so never the pair (Unknown, nil).
C9_NotFoundIsAnError ==
    (last.op = "GetJobStatus" /\ Len(calls) = 1
        /\ ~Recognised(calls[1].p, last.path, backend))
    => /\ last.err # NilErr
       /\ ~(last.status = JobStatusUnknown /\ last.err = NilErr)

\* The status of a task that was issued and then deleted was asked for.
C9_Witness ==
    /\ last.op = "GetJobStatus"
    /\ Len(calls) = 1
    /\ calls[1].p = TasksProvider
    /\ last.path = TaskName(1)
    /\ backend.issued >= 1
    /\ last.path \notin HeldTaskNames(backend)
    /\ Cause(last.err) = "NotFound"
    /\ last.status = JobStatusUnknown

\* Some condition of the given type is in the succeeded state.
HasSucceeded(conds, type) ==
    \E i \in 1..Len(conds) :
        conds[i].Type = type /\ conds[i].State = ConditionSucceeded

\* C10: the mapped status is the first of Completed, Failed, Cancelled, in that
\* order, with a condition in the succeeded state, whatever the order of the
\* condition list; the task counts decide only when there is none.
C10_FixedTerminalOrder ==
    (mapped # "none" /\ execution # Nil)
    => LET conds == execution[1].Conditions IN
       IF HasSucceeded(conds, "Completed") THEN mapped = JobStatusCompleted
       ELSE IF HasSucceeded(conds, "Failed") THEN mapped = JobStatusFailed
       ELSE IF HasSucceeded(conds, "Cancelled") THEN mapped = JobStatusCancelled
       ELSE mapped \in {JobStatusRunning, JobStatusPending}

\* C11: an execution that shows both a failure signal and a success signal (a
\* Failed condition and a Completed condition, both in the succeeded state) is
\* mapped to Failed, and a non-nil execution is never mapped to Unknown.
C11_FailureBeforeSuccess ==
    (mapped # "none" /\ execution # Nil)
    => /\ mapped # JobStatusUnknown
       /\ (HasSucceeded(execution[1].Conditions, "Failed")
              /\ HasSucceeded(execution[1].Conditions, "Completed"))
          => mapped = JobStatusFailed

\* The text of a resource path, as fmt would print it inside an error message.
PathText(path) == path[1] \o "/" \o ToString(path[2])

\* The error chain carries the resource path in one of its messages.
CarriesHandle(err, path) == \E i \in 1..Len(err) : err[i] = PathText(path)

\* C12: when GCPCloudRunProvider.SubmitJob fails at RunJob after CreateJob and its
\* Wait succeeded, the returned error names the failed step and carries the
\* resource path of the job that was created.
C12_PartialSubmitNamesResource ==
    (last.op = "SubmitJob" /\ Len(calls) = 1 /\ calls[1].p = RunProvider
        /\ calls[1].trace = <<"CreateJob", "Wait", "RunJob">> /\ last.err # NilErr)
    => /\ last.err[1] = "failed to run Cloud Run job"
       /\ JobName(last.config.JobID) \in HeldJobNames(backend)
       /\ CarriesHandle(last.err, JobName(last.config.JobID))

-----------------------------------------------------------------------------
(* ListJobs of the two gcp providers.                                      *)

\* A resource name is the list of its "/"-separated segments, as strings.Split
\* returns them; a segment is the list of its characters.
JennahPrefix == <<"j", "e", "n", "n", "a", "h", "-">>

\* strings.HasPrefix(s, prefix)
HasPrefix(s, prefix) ==
    Len(s) >= Len(prefix) /\ SubSeq(s, 1, Len(prefix)) = prefix

\* Final segments of the names a backend may hold: two of this system's, one that
\* stops short of the prefix, one foreign.
Segments ==
    {JennahPrefix \o <<"1">>, JennahPrefix \o <<"2">>,
     <<"j", "e", "n", "n", "a", "h">>, <<"x">>}

\* task.GetName() and job.GetName(): the collection and the final segment.
ListedName(p, seg) ==
    IF p = TasksProvider THEN <<"tasks", seg>> ELSE <<"jobs", seg>>

\* What the listed parent holds, in the order the service lists it.
HeldLists(p) ==
    UNION {[1..n -> {ListedName(p, seg) : seg \in Segments}] : n \in 0..MaxListed}

\* The call of it.Next() that fails: call k for k in 1..Len(held)+1, or none (0),
\* when the iterator ends with iterator.Done after the last item.
FailPoints(held) == 0..(Len(held) + 1)

\* The items it.Next() hands out before it returns an error: iterator.Done after
\* the last one, or the failure of call failAt.
Served(held, failAt) ==
    IF failAt = 0 THEN held ELSE SubSeq(held, 1, failAt - 1)

ListOutcome(names, err, nextCalls) ==
    [names |-> names, err |-> err, nextCalls |-> nextCalls]

\* GCPCloudTasksProvider.ListJobs: every name served, until it.Next() returns any
\* error; the error returned is always nil.
TasksListJobs(held, failAt) ==
    ListOutcome(Served(held, failAt), NilErr, Len(Served(held, failAt)) + 1)

\* The loop body's filter: the last part of the name starts with "jennah-".
JennahManaged(name) == Len(name) > 0 /\ HasPrefix(name[Len(name)], JennahPrefix)

\* GCPCloudRunProvider.ListJobs: the served names whose last segment has the
\* prefix, until it.Next() returns any error; the error returned is always nil.
RunListJobs(held, failAt) ==
    ListOutcome(SelectSeq(Served(held, failAt), JennahManaged), NilErr,
                Len(Served(held, failAt)) + 1)

ProviderListJobs(p, held, failAt) ==
    IF p = TasksProvider THEN TasksListJobs(held, failAt)
    ELSE RunListJobs(held, failAt)

\* names, err := p.ListJobs(ctx), against a backend that holds held and whose
\* iterator fails at call failAt.
ListJobs(p, held, failAt) ==
    /\ listing = Nil
    /\ listing' = Ptr([p |-> p, held |-> held, failAt |-> failAt,
                       out |-> ProviderListJobs(p, held, failAt)])
    /\ UNCHANGED <<core, rest, construct, chunk, proc, retry>>

InitList ==
    /\ built = "unbuilt"
    /\ providers = EmptyMap
    /\ InitIdle

NextList ==
    \E p \in {TasksProvider, RunProvider} :
        \E held \in HeldLists(p) : \E failAt \in FailPoints(held) :
            ListJobs(p, held, failAt)

\* One ListJobs call on either gcp provider, against any backend content.
SpecList == InitList /\ [][NextList]_vars

\* C13: when a backend call inside a provider operation fails, the operation
\* returns a non-nil error and does not issue the call again; for ListJobs, a
\* failure of the iterator is not returned as a successful, shortened list.
C13_BackendFailureSurfaces ==
    (listing # Nil /\ listing[1].failAt # 0)
    => /\ listing[1].out.err # NilErr
       /\ listing[1].out.nextCalls = listing[1].failAt

\* C14: every name ListJobs returns has a final segment that starts with
\* "jennah-", for both providers.
C14_ListedNamesInNamespace ==
    listing # Nil
    => \A i \in 1..Len(listing[1].out.names) :
           HasPrefix(listing[1].out.names[i][Len(listing[1].out.names[i])],
                     JennahPrefix)

-----------------------------------------------------------------------------
(* Construction of the two gcp providers.                                  *)

\* Values of a configuration string: empty or set.
ConfigStrings == {"", "v"}
OptionKeys == {"queue_id", "target_url"}

\* batch.ProviderConfig: ProjectID, Region and the ProviderOptions map.
ProviderConfigs ==
    {[ProjectID |-> pr, Region |-> rg, ProviderOptions |-> po] :
        pr \in ConfigStrings, rg \in ConfigStrings,
        po \in UNION {[ks -> ConfigStrings] : ks \in SUBSET OptionKeys}}

\* config.ProviderOptions[key]: the empty string for an absent key.
Option(config, key) ==
    IF key \in DOMAIN config.ProviderOptions THEN config.ProviderOptions[key] ELSE ""

\* What a constructor returns, with the API clients it created and closed.
Constructed(provider, err, created, closed) ==
    [provider |-> provider, err |-> err, created |-> created, closed |-> closed]

DefaultQueueID == "jennah-simple"

\* A mutant of NewGCPCloudTasksProvider: an empty target_url is accepted.
NewGCPCloudTasksProviderNoTarget(config, clientOK) ==
    IF config.ProjectID = ""
    THEN Constructed(Nil, <<"project_id is required for GCP Cloud Tasks provider">>,
                     {}, {})
    ELSE IF config.Region = ""
    THEN Constructed(Nil, <<"region is required for GCP Cloud Tasks provider">>, {}, {})
    ELSE IF ~clientOK
    THEN Constructed(Nil, Wrap("failed to create Cloud Tasks client", <<"Unavailable">>),
                     {}, {})
    ELSE Constructed(
             Ptr([client |-> "tasks", projectID |-> config.ProjectID,
                  region |-> config.Region,
                  queueID |-> IF Option(config, "queue_id") = "" THEN DefaultQueueID
                              ELSE Option(config, "queue_id"),
                  targetURL |-> Option(config, "target_url")]),
             NilErr, {"tasks"}, {})

\* NewGCPCloudTasksProvider(ctx, config); clientOK is whether cloudtasks.NewClient
\* succeeds.
NewGCPCloudTasksProvider(config, clientOK) ==
    IF config.ProjectID = ""
    THEN Constructed(Nil, <<"project_id is required for GCP Cloud Tasks provider">>,
                     {}, {})
    ELSE IF config.Region = ""
    THEN Constructed(Nil, <<"region is required for GCP Cloud Tasks provider">>, {}, {})
    ELSE IF ~clientOK
    THEN Constructed(Nil, Wrap("failed to create Cloud Tasks client", <<"Unavailable">>),
                     {}, {})
    ELSE LET queueID == IF Option(config, "queue_id") = "" THEN DefaultQueueID
                        ELSE Option(config, "queue_id")
             targetURL == Option(config, "target_url")
         IN IF targetURL = ""
            THEN Constructed(
                     Nil,
                     <<"target_url is required in ProviderOptions for Cloud Tasks provider">>,
                     {"tasks"}, {})
            ELSE Constructed(
                     Ptr([client |-> "tasks", projectID |-> config.ProjectID,
                          region |-> config.Region, queueID |-> queueID,
                          targetURL |-> targetURL]),
                     NilErr, {"tasks"}, {})

\* NewGCPCloudRunProvider(ctx, config); jobsOK and execOK are whether
\* run.NewJobsClient and run.NewExecutionsClient succeed.
NewGCPCloudRunProvider(config, jobsOK, execOK) ==
    IF config.ProjectID = ""
    THEN Constructed(Nil, <<"project_id is required for GCP Cloud Run Jobs provider">>,
                     {}, {})
    ELSE IF config.Region = ""
    THEN Constructed(Nil, <<"region is required for GCP Cloud Run Jobs provider">>,
                     {}, {})
    ELSE IF ~jobsOK
    THEN Constructed(Nil, Wrap("failed to create Cloud Run Jobs client", <<"Unavailable">>),
                     {}, {})
    ELSE IF ~execOK
    THEN Constructed(Nil,
                     Wrap("failed to create Cloud Run Executions client", <<"Unavailable">>),
                     {"jobs"}, {"jobs"})
    ELSE Constructed(
             Ptr([jobsClient |-> "jobs", executionClient |-> "executions",
                  projectID |-> config.ProjectID, region |-> config.Region]),
             NilErr, {"jobs", "executions"}, {})

\* provider, err := gcp.NewGCPCloudTasksProvider(ctx, config)
ConstructTasks(config, clientOK) ==
    /\ construct = Nil
    /\ construct' = Ptr([kind |-> TasksProvider, config |-> config,
                         clients |-> <<clientOK>>,
                         out |-> NewGCPCloudTasksProvider(config, clientOK)])
    /\ UNCHANGED <<core, rest, listing, chunk, proc, retry>>

\* provider, err := gcp.NewGCPCloudRunProvider(ctx, config)
ConstructRun(config, jobsOK, execOK) ==
    /\ construct = Nil
    /\ construct' = Ptr([kind |-> RunProvider, config |-> config,
                         clients |-> <<jobsOK, execOK>>,
                         out |-> NewGCPCloudRunProvider(config, jobsOK, execOK)])
    /\ UNCHANGED <<core, rest, listing, chunk, proc, retry>>

InitConstruct ==
    /\ built = "unbuilt"
    /\ providers = EmptyMap
    /\ InitIdle

NextConstruct ==
    \/ \E config \in ProviderConfigs, clientOK \in BOOLEAN :
           ConstructTasks(config, clientOK)
    \/ \E config \in ProviderConfigs, jobsOK \in BOOLEAN, execOK \in BOOLEAN :
           ConstructRun(config, jobsOK, execOK)

\* One constructor call of either gcp provider, with any configuration.
SpecConstruct == InitConstruct /\ [][NextConstruct]_vars

\* C15: NewGCPCloudTasksProvider returns an error and no provider when ProjectID,
\* Region or ProviderOptions["target_url"] is empty, and a provider it returns
\* uses queue "jennah-simple" when queue_id is absent or empty and the given
\* queue_id otherwise; NewGCPCloudRunProvider returns an error and no provider
\* when ProjectID or Region is empty.
C15_ConstructionFailsFast ==
    construct # Nil
    => LET c == construct[1]
           missing ==
               \/ c.config.ProjectID = ""
               \/ c.config.Region = ""
               \/ (c.kind = TasksProvider /\ Option(c.config, "target_url") = "")
       IN /\ missing => (c.out.err # NilErr /\ c.out.provider = Nil)
          /\ (c.out.err = NilErr) <=> (c.out.provider # Nil)
          /\ (c.kind = TasksProvider /\ c.out.provider # Nil)
             => /\ c.out.provider[1].targetURL # ""
                /\ c.out.provider[1].queueID =
                       IF "queue_id" \in DOMAIN c.config.ProviderOptions
                          /\ c.config.ProviderOptions["queue_id"] # ""
                       THEN c.config.ProviderOptions["queue_id"]
                       ELSE DefaultQueueID

\* A Cloud Tasks provider was asked for with project and region set, the client
\* created, and no target_url in the options: the constructor returned an error.
C15_Witness ==
    /\ construct # Nil
    /\ construct[1].kind = TasksProvider
    /\ construct[1].config.ProjectID # ""
    /\ construct[1].config.Region # ""
    /\ "target_url" \notin DOMAIN construct[1].config.ProviderOptions
    /\ construct[1].out.created = {"tasks"}
    /\ construct[1].out.err # NilErr
    /\ construct[1].out.provider = Nil

-----------------------------------------------------------------------------
(* demo.ChunkCalculator: the byte range of each instance.                  *)

ByteRange(startByte, endByte, instanceID, totalInstances) ==
    [StartByte |-> startByte, EndByte |-> endByte, InstanceID |-> instanceID,
     TotalInstances |-> totalInstances]

\* NewChunkCalculator(fileSize, totalInstances)
NewChunkCalculator(fileSize, totalInstances) ==
    [fileSize |-> fileSize, totalInstances |-> totalInstances]

\* A mutant of min: the remainder is never spread over the instances.
minZero(a, b) == 0

\* func min(a, b int64) int64
min(a, b) == IF a < b THEN a ELSE b

\* startByte of the normal case.  Every product is at most fileSize, so no
\* int64 operation here can overflow.
startByte(c, instanceID) ==
    LET bytesPerInstance == c.fileSize \div c.totalInstances
        remainder == c.fileSize % c.totalInstances
    IN IF instanceID = 0 THEN 0
       ELSE instanceID * bytesPerInstance + min(instanceID, remainder)

\* A mutant of endByte: the range runs one byte into the next instance's.
endByteOverlap(c, instanceID) ==
    LET bytesPerInstance == c.fileSize \div c.totalInstances
        remainder == c.fileSize % c.totalInstances
    IN IF instanceID = c.totalInstances - 1 THEN c.fileSize - 1
       ELSE (instanceID + 1) * bytesPerInstance + min(instanceID + 1, remainder)

\* endByte of the normal case.
endByte(c, instanceID) ==
    LET bytesPerInstance == c.fileSize \div c.totalInstances
        remainder == c.fileSize % c.totalInstances
    IN IF instanceID = c.totalInstances - 1 THEN c.fileSize - 1
       ELSE (instanceID + 1) * bytesPerInstance + min(instanceID + 1, remainder) - 1

Calculated(range, err) == [range |-> range, err |-> err]

\* (c *ChunkCalculator) Calculate(instanceID)
Calculate(c, instanceID) ==
    IF instanceID < 0
    THEN Calculated(Nil, <<"instanceID must be >= 0">>)
    ELSE IF instanceID >= c.totalInstances
    THEN Calculated(Nil, <<"instanceID >= totalInstances">>)
    ELSE IF c.fileSize < 0
    THEN Calculated(Nil, <<"fileSize cannot be negative">>)
    ELSE IF c.totalInstances < 1
    THEN Calculated(Nil, <<"totalInstances must be >= 1">>)
    ELSE IF c.fileSize < c.totalInstances
    THEN IF instanceID < c.fileSize
         THEN Calculated(Ptr(ByteRange(instanceID, instanceID, instanceID,
                                       c.totalInstances)), NilErr)
         ELSE Calculated(Ptr(ByteRange(0, -1, instanceID, c.totalInstances)), NilErr)
    ELSE Calculated(Ptr(ByteRange(startByte(c, instanceID), endByte(c, instanceID),
                                  instanceID, c.totalInstances)), NilErr)

\* (b *ByteRange) Size()
Size(b) == IF b.EndByte < b.StartByte THEN 0 ELSE b.EndByte - b.StartByte + 1

\* (b *ByteRange) IsEmpty()
IsEmpty(b) == b.EndByte < b.StartByte

FileSizes == (-1)..MaxFileSize
InstanceCounts == 0..MaxInstances
InstanceIDs == (-1)..MaxInstances

\* A calculator was made for some file and some number of instances; nothing
\* was calculated with it yet.
InitChunk ==
    /\ InitCore
    /\ InitRest
    /\ listing = Nil
    /\ construct = Nil
    /\ proc = Nil
    /\ retry = Nil
    /\ chunk \in {[calc |-> NewChunkCalculator(fileSize, totalInstances),
                   results |-> [i \in {} |-> Calculated(Nil, NilErr)]] :
                     fileSize \in FileSizes, totalInstances \in InstanceCounts}

\* byteRange, err := calc.Calculate(instanceID)
CalculateRange(instanceID) ==
    /\ instanceID \notin DOMAIN chunk.results
    /\ chunk' = [chunk EXCEPT !.results =
                    [i \in (DOMAIN @) \cup {instanceID} |->
                        IF i = instanceID THEN Calculate(chunk.calc, instanceID)
                        ELSE @[i]]]
    /\ UNCHANGED <<core, rest, listing, construct, proc, retry>>

NextChunk == \E instanceID \in InstanceIDs : CalculateRange(instanceID)

\* One calculator, asked for the range of each instance ID, in any order.
SpecChunk == InitChunk /\ [][NextChunk]_vars

\* The calculator is valid and the range of every instance 0..N-1 was calculated.
AllCalculated ==
    /\ chunk.calc.fileSize >= 0
    /\ chunk.calc.totalInstances >= 1
    /\ \A i \in 0..(chunk.calc.totalInstances - 1) : i \in DOMAIN chunk.results

RangeOf(i) == chunk.results[i].range[1]

RECURSIVE SumSizes(_)
SumSizes(n) == IF n = 0 THEN 0 ELSE Size(RangeOf(n - 1)) + SumSizes(n - 1)

\* C16: for fileSize >= 0 and N >= 1 the ranges of instances 0..N-1 partition the
\* file: every call succeeds, the non-empty ranges are pairwise disjoint, follow
\* one another in instance order with no byte between them, start at byte 0 and
\* end at byte fileSize-1, and the sizes sum to fileSize (all ranges are empty
\* when fileSize is 0).
C16_RangesPartitionFile ==
    AllCalculated
    => LET N == chunk.calc.totalInstances
           fileSize == chunk.calc.fileSize
           nonEmpty == {i \in 0..(N - 1) : ~IsEmpty(RangeOf(i))}
       IN /\ \A i \in 0..(N - 1) :
                 /\ chunk.results[i].err = NilErr
                 /\ chunk.results[i].range # Nil
                 /\ RangeOf(i).InstanceID = i
          /\ SumSizes(N) = fileSize
          /\ fileSize = 0 => nonEmpty = {}
          /\ fileSize > 0 => nonEmpty # {}
          /\ \A i \in nonEmpty :
                 /\ RangeOf(i).StartByte >= 0
                 /\ RangeOf(i).EndByte <= fileSize - 1
                 /\ (\A k \in nonEmpty : k >= i) => RangeOf(i).StartByte = 0
                 /\ (\A k \in nonEmpty : k <= i) => RangeOf(i).EndByte = fileSize - 1
          /\ \A i, j \in nonEmpty :
                 /\ i < j => RangeOf(i).EndByte < RangeOf(j).StartByte
                 /\ (i < j /\ \A k \in nonEmpty : ~(i < k /\ k < j))
                    => RangeOf(j).StartByte = RangeOf(i).EndByte + 1

\* A file of 5 bytes was divided across 3 instances and every range calculated.
C16_Witness ==
    /\ AllCalculated
    /\ chunk.calc.fileSize = 5
    /\ chunk.calc.totalInstances = 3
    /\ RangeOf(1).StartByte = 2
    /\ RangeOf(2).EndByte = 4

\* C17: the sizes of any two instances' ranges differ by at most one byte and do
\* not increase with the instance ID: the first fileSize mod N instances get one
\* byte more than the rest; when fileSize < N, instance i < fileSize gets byte i
\* alone and the other instances get an empty range.
C17_EvenDivision ==
    AllCalculated
    => LET N == chunk.calc.totalInstances
           fileSize == chunk.calc.fileSize
       IN /\ \A i, j \in 0..(N - 1) :
                 /\ Size(RangeOf(i)) - Size(RangeOf(j)) \in {-1, 0, 1}
                 /\ i < j => Size(RangeOf(i)) >= Size(RangeOf(j))
          /\ \A i \in 0..(N - 1) :
                 /\ Size(RangeOf(i)) =
                        (fileSize \div N) + (IF i < fileSize % N THEN 1 ELSE 0)
                 /\ fileSize < N =>
                        IF i < fileSize
                        THEN RangeOf(i).StartByte = i /\ RangeOf(i).EndByte = i
                        ELSE IsEmpty(RangeOf(i))

\* A file of 2 bytes was divided across 3 instances: the last range is empty.
C17_Witness ==
    /\ AllCalculated
    /\ chunk.calc.fileSize = 2
    /\ chunk.calc.totalInstances = 3
    /\ Size(RangeOf(0)) = 1
    /\ Size(RangeOf(1)) = 1
    /\ IsEmpty(RangeOf(2))

-----------------------------------------------------------------------------
(* demo.ErrorHandler: the retry loop.                                      *)

\* Delays are in seconds.
RetryStrategy(maxRetries, delays) == [MaxRetries |-> maxRetries, Delays |-> delays]

\* DefaultRetry()
DefaultRetry == RetryStrategy(3, <<1, 2, 4>>)

\* NewErrorHandler()
NewErrorHandler == [strategy |-> DefaultRetry]

\* The errors an operation may fail with.
OpErrors == {<<"timeout">>, <<"connection refused">>, <<"permission denied">>}

\* eh.HandleWithRetry(op, opName) at its first loop test: attempt is 0, and
\* 0 <= MaxRetries, so op is about to be called.  calls lists what each call of
\* op returned, slept the durations passed to time.Sleep.
EnterRetry(eh, opName) ==
    [strategy |-> eh.strategy, opName |-> opName, pc |-> "call", attempt |-> 0,
     lastErr |-> NilErr, calls |-> <<>>, slept |-> <<>>, result |-> NilErr,
     panic |-> FALSE]

\* A mutant of AfterOp: the final attempt is followed by one more wait.
AfterOpWaitAgain(r, err) ==
    LET called == [r EXCEPT !.calls = Append(@, err)] IN
    IF err = NilErr
    THEN [called EXCEPT !.pc = "done", !.result = NilErr]
    ELSE IF r.attempt + 1 > Len(r.strategy.Delays)
    THEN [called EXCEPT !.lastErr = err, !.pc = "done", !.panic = TRUE]
    ELSE [called EXCEPT !.lastErr = err, !.pc = "sleep"]

\* The loop body from the call of op to the point before time.Sleep: op returned
\* err.  Reading Delays[attempt] beyond the slice's length panics.
AfterOp(r, err) ==
    LET called == [r EXCEPT !.calls = Append(@, err)] IN
    IF err = NilErr
    THEN [called EXCEPT !.pc = "done", !.result = NilErr]
    ELSE IF r.attempt >= r.strategy.MaxRetries
    THEN [called EXCEPT
             !.lastErr = err, !.pc = "done",
             !.result = Wrap(r.opName \o " failed after "
                                 \o ToString(r.strategy.MaxRetries) \o " retries", err)]
    ELSE IF r.attempt + 1 > Len(r.strategy.Delays)
    THEN [called EXCEPT !.lastErr = err, !.pc = "done", !.panic = TRUE]
    ELSE [called EXCEPT !.lastErr = err, !.pc = "sleep"]

\* time.Sleep(delay), attempt++ and the loop test; the return after the loop
\* when the test fails.
AfterSleep(r) ==
    LET next == [r EXCEPT !.slept = Append(@, r.strategy.Delays[r.attempt + 1]),
                          !.attempt = @ + 1]
    IN IF next.attempt <= r.strategy.MaxRetries
       THEN [next EXCEPT !.pc = "call"]
       ELSE [next EXCEPT !.pc = "done", !.result = r.lastErr]

\* op() returns err inside HandleWithRetry.
RetryCall(err) ==
    /\ retry # Nil
    /\ retry.pc = "call"
    /\ retry' = AfterOp(retry, err)
    /\ UNCHANGED <<core, rest, listing, construct, chunk, proc>>

\* HandleWithRetry waits before the next attempt.
RetrySleep ==
    /\ retry # Nil
    /\ retry.pc = "sleep"
    /\ retry' = AfterSleep(retry)
    /\ UNCHANGED <<core, rest, listing, construct, chunk, proc>>

InitRetry ==
    /\ InitCore
    /\ InitRest
    /\ listing = Nil
    /\ construct = Nil
    /\ chunk = Nil
    /\ proc = Nil
    /\ retry = EnterRetry(NewErrorHandler, "op")

NextRetry ==
    \/ \E err \in OpErrors \cup {NilErr} : RetryCall(err)
    \/ RetrySleep

\* One HandleWithRetry call of a new ErrorHandler, with an operation that may
\* succeed or fail at each attempt.
SpecRetry == InitRetry /\ [][NextRetry]_vars

\* C20: with the default strategy HandleWithRetry calls the operation at most 4
\* times, returns nil at the first success without calling it again, waits 1s,
\* 2s and 4s in that order before the 2nd, 3rd and 4th attempts, returns an error
\* wrapping the last failure after the 4th failure without waiting again, and
\* never reads Delays out of range.
C20_RetryAtMostFour ==
    retry # Nil
    => /\ ~retry.panic
       /\ Len(retry.calls) <= 4
       /\ \A i \in 1..(Len(retry.calls) - 1) : retry.calls[i] # NilErr
       /\ retry.slept = SubSeq(<<1, 2, 4>>, 1, Len(retry.slept))
       /\ retry.pc = "call" => Len(retry.slept) = Len(retry.calls)
       /\ retry.pc = "sleep" => Len(retry.slept) = Len(retry.calls) - 1
       /\ retry.pc = "done"
          => /\ Len(retry.calls) >= 1
             /\ Len(retry.slept) = Len(retry.calls) - 1
             /\ LET final == retry.calls[Len(retry.calls)] IN
                IF final = NilErr
                THEN retry.result = NilErr
                ELSE /\ Len(retry.calls) = 4
                     /\ retry.result # NilErr
                     /\ Tail(retry.result) = final

\* The operation failed four times: three waits, and the last failure returned.
C20_Witness ==
    /\ retry # Nil
    /\ retry.pc = "done"
    /\ Len(retry.calls) = 4
    /\ retry.slept = <<1, 2, 4>>
    /\ retry.result = <<"op failed after 3 retries", "timeout">>

-----------------------------------------------------------------------------
(* demo.Processor: one Process call per instance of the demo job.          *)

\* A path is the list of its "/"-separated parts; gs://bucket/input.txt and
\* ./input.txt.
GCSInputPath == <<"gs:", "", "bucket", "input.txt">>
LocalInputPath == <<".", "input.txt">>
InputPaths == {GCSInputPath, LocalInputPath}

\* IsGCSPath(path): strings.HasPrefix(path, "gs://")
IsGCSPath(path) == Len(path) >= 3 /\ path[1] = "gs:" /\ path[2] = ""

\* The bytes of the input: empty, "ab c\nd" and "a\nb\n".
Contents ==
    {<<>>, <<"a", "b", " ", "c", "\n", "d">>, <<"a", "\n", "b", "\n">>}

IsSpace(ch) == ch \in {" ", "\n"}

\* The tokens bufio.ScanLines yields: one per newline, and one for a last line
\* that has no newline.
LinesIn(data) ==
    Cardinality({i \in 1..Len(data) : data[i] = "\n"})
        + (IF data # <<>> /\ data[Len(data)] # "\n" THEN 1 ELSE 0)

\* The sum of len(strings.Fields(line)) over the lines: the starts of the runs of
\* non-space characters.
WordsIn(data) ==
    Cardinality({i \in 1..Len(data) :
                    ~IsSpace(data[i]) /\ (i = 1 \/ IsSpace(data[i - 1]))})

\* The sum of len([]rune(line)) over the lines: every character but the newlines.
CharsIn(data) == Cardinality({i \in 1..Len(data) : data[i] # "\n"})

\* The part of DistributedConfig that Process reads.
DistributedConfig(instanceID, totalInstances, path, size) ==
    [InstanceID |-> instanceID, TotalInstances |-> totalInstances,
     InputDataPath |-> path, InputDataSize |-> size]

\* The part of ProcessMetrics that Process fills in.
ProcessMetrics(instanceID) ==
    [InstanceID |-> instanceID, StartByte |-> 0, EndByte |-> 0, BytesProcessed |-> 0,
     LinesCount |-> 0, WordsCount |-> 0, CharactersCount |-> 0]

\* What openFile returns, and the configuration as it leaves it.
Opened(reader, err, cfg) == [reader |-> reader, err |-> err, cfg |-> cfg]

\* An *os.File on the whole input, and a *GCSReader on the bytes start..end of it.
OSFile(content) == [type |-> "*os.File", data |-> content]
GCSReader(content, start, end) ==
    [type |-> "*GCSReader",
     data |-> SubSeq(content, start + 1, min(end + 1, Len(content)))]

\* (p *Processor) openGCSFile(ctx); ok is whether the object can be reached.
\* calc keeps the file size it was made with, so the range calculated again after
\* InputDataSize was fetched is the same range.
openGCSFile(cfg, content, ok) ==
    LET calc == NewChunkCalculator(cfg.InputDataSize, cfg.TotalInstances)
        first == Calculate(calc, cfg.InstanceID)
    IN IF first.err # NilErr
       THEN Opened(Nil, Wrap("calculate byte range", first.err), cfg)
       ELSE IF cfg.InputDataSize = 0 /\ ~ok
       THEN Opened(Nil, Wrap("get GCS object size", <<"timeout">>), cfg)
       ELSE LET sized == IF cfg.InputDataSize = 0
                         THEN [cfg EXCEPT !.InputDataSize = Len(content)]
                         ELSE cfg
                byteRange == Calculate(calc, cfg.InstanceID).range[1]
            IN IF ~ok
               THEN Opened(Nil, Wrap("open GCS range reader", <<"timeout">>), sized)
               ELSE Opened(Ptr(GCSReader(content, byteRange.StartByte,
                                         byteRange.EndByte)),
                           NilErr, sized)

\* (p *Processor) openFile(ctx); ok is whether os.Stat and os.Open succeed.
openFile(cfg, content, ok) ==
    IF IsGCSPath(cfg.InputDataPath)
    THEN openGCSFile(cfg, content, ok)
    ELSE IF ~ok
    THEN Opened(Nil, <<"input file not found">>, cfg)
    ELSE Opened(Ptr(OSFile(content)), NilErr,
                IF cfg.InputDataSize = 0
                THEN [cfg EXCEPT !.InputDataSize = Len(content)]
                ELSE cfg)

Processed(metrics, err) == [metrics |-> metrics, err |-> err]

\* (p *Processor) processReader(ctx, reader, br, m): the type assertion, Seek,
\* io.LimitReader and the scan.
processReader(reader, br, m) ==
    IF reader.type # "*os.File"
    THEN Processed(m, <<"reader must be a file">>)
    ELSE LET data == SubSeq(reader.data, br.StartByte + 1,
                            min(br.StartByte + Size(br), Len(reader.data)))
         IN Processed([m EXCEPT !.LinesCount = LinesIn(data),
                                !.WordsCount = WordsIn(data),
                                !.CharactersCount = CharsIn(data)],
                      NilErr)

\* Process up to the call of HandleWithRetry: the metrics and the byte range, and
\* whether Process returns already (a failed calculation, an empty range).
ProcessEntry(cfg) ==
    LET calc == NewChunkCalculator(cfg.InputDataSize, cfg.TotalInstances)
        c == Calculate(calc, cfg.InstanceID)
        m == ProcessMetrics(cfg.InstanceID)
    IN IF c.err # NilErr
       THEN [returns |-> TRUE, range |-> Nil,
             out |-> Processed(m, Wrap("chunk calculation failed", c.err))]
       ELSE LET ranged == [m EXCEPT !.StartByte = c.range[1].StartByte,
                                    !.EndByte = c.range[1].EndByte,
                                    !.BytesProcessed = Size(c.range[1])]
            IN [returns |-> IsEmpty(c.range[1]), range |-> c.range,
                out |-> Processed(ranged, NilErr)]

\* Values of INPUT_DATA_SIZE for an input: not set, or the size of the input.
InputDataSizes(content) == {0, Len(content)}

\* The job's instances were configured; none has run.  opened collects the
\* instances whose input was opened.
InitProc ==
    /\ InitCore
    /\ InitRest
    /\ listing = Nil
    /\ construct = Nil
    /\ chunk = Nil
    /\ retry = Nil
    /\ proc \in UNION {
            {[TotalInstances |-> n, InputDataPath |-> path, content |-> content,
              InputDataSize |-> size, cur |-> Nil, opened |-> {},
              done |-> [i \in {} |-> Processed(ProcessMetrics(0), NilErr)]] :
                n \in 1..MaxInstances, path \in InputPaths,
                size \in InputDataSizes(content)} :
            content \in Contents}

Finished(p, instanceID, out) ==
    [p EXCEPT !.cur = Nil,
              !.done = [i \in (DOMAIN @) \cup {instanceID} |->
                           IF i = instanceID THEN out ELSE @[i]]]

\* Instance instanceID calls processor.Process(ctx).
ProcessBegin(instanceID) ==
    /\ proc.cur = Nil
    /\ instanceID < proc.TotalInstances
    /\ instanceID \notin DOMAIN proc.done
    /\ LET cfg == DistributedConfig(instanceID, proc.TotalInstances,
                                    proc.InputDataPath, proc.InputDataSize)
           e == ProcessEntry(cfg)
       IN IF e.returns
          THEN /\ proc' = Finished(proc, instanceID, e.out)
               /\ UNCHANGED retry
          ELSE /\ proc' = [proc EXCEPT !.cur = Ptr([cfg |-> cfg, metrics |-> e.out.metrics,
                                                    byteRange |-> e.range[1],
                                                    reader |-> Nil])]
               /\ retry' = EnterRetry(NewErrorHandler, "File open")
    /\ UNCHANGED <<core, rest, listing, construct, chunk>>

\* HandleWithRetry calls the closure around p.openFile(ctx).
OpenAttempt(ok) ==
    /\ proc.cur # Nil
    /\ retry.pc = "call"
    /\ LET o == openFile(proc.cur[1].cfg, proc.content, ok) IN
       /\ retry' = AfterOp(retry, o.err)
       /\ proc' = [proc EXCEPT !.cur[1].cfg = o.cfg,
                               !.cur[1].reader = IF o.err = NilErr THEN o.reader ELSE @,
                               !.opened = IF o.err = NilErr
                                          THEN @ \cup {proc.cur[1].cfg.InstanceID}
                                          ELSE @]
    /\ UNCHANGED <<core, rest, listing, construct, chunk>>

\* HandleWithRetry waits before it opens the input again.
OpenSleep ==
    /\ proc.cur # Nil
    /\ retry.pc = "sleep"
    /\ retry' = AfterSleep(retry)
    /\ UNCHANGED <<core, rest, listing, construct, chunk, proc>>

\* HandleWithRetry returned: Process returns its error, or calls processReader
\* and returns.
ProcessFinish ==
    /\ proc.cur # Nil
    /\ retry.pc = "done"
    /\ LET c == proc.cur[1] IN
       proc' = Finished(proc, c.cfg.InstanceID,
                        IF retry.result # NilErr
                        THEN Processed(c.metrics, retry.result)
                        ELSE processReader(c.reader[1], c.byteRange, c.metrics))
    /\ retry' = Nil
    /\ UNCHANGED <<core, rest, listing, construct, chunk>>

NextProc ==
    \/ \E instanceID \in 0..(MaxInstances - 1) : ProcessBegin(instanceID)
    \/ \E ok \in BOOLEAN : OpenAttempt(ok)
    \/ OpenSleep
    \/ ProcessFinish

\* The instances of one job, each running Process once, one after another.
SpecProc == InitProc /\ [][NextProc]_vars

\* Every instance of the job has returned from Process.
AllProcessed == \A i \in 0..(proc.TotalInstances - 1) : i \in DOMAIN proc.done

RECURSIVE SumBytesProcessed(_)
SumBytesProcessed(n) ==
    IF n = 0 THEN 0
    ELSE proc.done[n - 1].metrics.BytesProcessed + SumBytesProcessed(n - 1)

\* C18: with InputDataSize 0 and a non-empty local input, once every instance
\* has returned from Process without error, the BytesProcessed they report sum
\* to the size of the file.
C18_SizeFromFile ==
    (/\ proc.InputDataSize = 0
     /\ ~IsGCSPath(proc.InputDataPath)
     /\ proc.content # <<>>
     /\ AllProcessed
     /\ \A i \in 0..(proc.TotalInstances - 1) : proc.done[i].err = NilErr)
    => SumBytesProcessed(proc.TotalInstances) = Len(proc.content)

\* The bytes start..end of the input.
RangeData(content, m) == SubSeq(content, m.StartByte + 1, m.EndByte + 1)

\* C19: when the input is a gs:// object and some attempt opened it, Process
\* returns no error and the metrics hold the lines, words and characters of the
\* instance's byte range.
C19_GCSRangeIsProcessed ==
    \A i \in DOMAIN proc.done :
        (IsGCSPath(proc.InputDataPath) /\ i \in proc.opened)
        => /\ proc.done[i].err = NilErr
           /\ proc.done[i].metrics.LinesCount = LinesIn(RangeData(proc.content, proc.done[i].metrics))
           /\ proc.done[i].metrics.WordsCount = WordsIn(RangeData(proc.content, proc.done[i].metrics))
           /\ proc.done[i].metrics.CharactersCount =
                  CharsIn(RangeData(proc.content, proc.done[i].metrics))

-----------------------------------------------------------------------------
(* Retrying and the kind of the failure.                                   *)

\* The failures of the authentication and permission kind (ErrPermissionDenied).
AuthErrors == {<<"permission denied">>}

\* C21: an operation that fails with an authentication or permission error is
\* not retried: HandleWithRetry ends at that attempt, without a wait after it
\* and without another call of the operation.
C21_AuthErrorNotRetried ==
    retry # Nil
    => \A i \in 1..Len(retry.calls) :
          retry.calls[i] \in AuthErrors
          => /\ i = Len(retry.calls)
             /\ retry.pc = "done"
             /\ Len(retry.slept) = i - 1

-----------------------------------------------------------------------------
(* The aggregator: loadFromLocal.                                          *)

\* File names and patterns are lists of characters.
InstancePattern ==
    <<"i", "n", "s", "t", "a", "n", "c", "e", "-", "*", ".", "j", "s", "o", "n">>

\* The names a directory may hold, in the lexical order in which filepath.Glob
\* reports a directory's entries: instance-0.json, instance-1.json,
\* instance-1.txt, notes.json.
FileNames ==
    <<<<"i", "n", "s", "t", "a", "n", "c", "e", "-", "0", ".", "j", "s", "o", "n">>,
      <<"i", "n", "s", "t", "a", "n", "c", "e", "-", "1", ".", "j", "s", "o", "n">>,
      <<"i", "n", "s", "t", "a", "n", "c", "e", "-", "1", ".", "t", "x", "t">>,
      <<"n", "o", "t", "e", "s", ".", "j", "s", "o", "n">>>>

\* The directories the aggregator is pointed at: out, and out[1.
DirPaths == {<<"o", "u", "t">>, <<"o", "u", "t", "[", "1">>}

\* filepath.Match(pattern, name) for patterns of literal characters and "*";
\* the names have no separator, so "*" matches any run of characters.
RECURSIVE Match(_, _)
Match(pattern, name) ==
    IF pattern = <<>> THEN name = <<>>
    ELSE IF Head(pattern) = "*"
    THEN \/ Match(Tail(pattern), name)
         \/ name # <<>> /\ Match(pattern, Tail(name))
    ELSE /\ name # <<>>
         /\ Head(name) = Head(pattern)
         /\ Match(Tail(pattern), Tail(name))

\* filepath.ErrBadPattern: a "[" that no later "]" closes after at least one
\* character.
BadPattern(pattern) ==
    \E i \in 1..Len(pattern) :
        /\ pattern[i] = "["
        /\ ~\E j \in (i + 2)..Len(pattern) : pattern[j] = "]"

\* filepath.Join(dirPath, "instance-*.json")
JoinPattern(dirPath) == dirPath \o <<"/">> \o InstancePattern

\* filepath.Glob(pattern) on the directory dirPath, whose entries are the names
\* FileNames[i] for i in DOMAIN dir: the error of a malformed pattern, else the
\* indices of the entries that match, in order.
Glob(dirPath, dir) ==
    IF BadPattern(JoinPattern(dirPath))
    THEN [files |-> <<>>, err |-> <<"syntax error in pattern">>]
    ELSE [files |-> SelectSeq([i \in 1..Len(FileNames) |-> i],
                              LAMBDA i : i \in DOMAIN dir
                                         /\ Match(InstancePattern, FileNames[i])),
          err |-> NilErr]

\* What a file holds: a JSON object with the fields of a ProcessMetrics, the
\* empty object, a JSON array, or text that is not JSON.
MetricsObject(id, bytes) == <<"object", id, bytes>>
FileData ==
    {MetricsObject(0, 3), MetricsObject(1, 4), <<"object">>, <<"array">>,
     <<"{invalid json}">>}

\* json.Unmarshal(data, &m) on a zero ProcessMetrics: the fields the object
\* names are set, a JSON array or malformed text is an error.
Unmarshal(data) ==
    IF Head(data) = "object"
    THEN [m |-> IF Len(data) = 1 THEN ProcessMetrics(0)
                ELSE [ProcessMetrics(data[2]) EXCEPT !.BytesProcessed = data[3]],
          err |-> NilErr]
    ELSE IF Head(data) = "array"
    THEN [m |-> ProcessMetrics(0),
          err |-> <<"json: cannot unmarshal array into Go value of type demo.ProcessMetrics">>]
    ELSE [m |-> ProcessMetrics(0), err |-> <<"invalid character 'i'">>]

\* A directory entry: whether os.ReadFile succeeds on it, and its data.
FileEntries == [readable : BOOLEAN, data : FileData]
Directories == UNION {[ns -> FileEntries] : ns \in SUBSET (1..Len(FileNames))}

\* The loop of loadFromLocal over files[k..]: an entry that cannot be read or
\* unmarshalled is skipped, the others are appended.
RECURSIVE LoadFiles(_, _, _)
LoadFiles(files, dir, metrics) ==
    IF files = <<>> THEN metrics
    ELSE LET f == dir[Head(files)] IN
         IF ~f.readable THEN LoadFiles(Tail(files), dir, metrics)
         ELSE IF Unmarshal(f.data).err # NilErr
         THEN LoadFiles(Tail(files), dir, metrics)
         ELSE LoadFiles(Tail(files), dir, Append(metrics, Unmarshal(f.data).m))

\* loadFromLocal(ctx, dirPath)
loadFromLocal(dirPath, dir) ==
    LET g == Glob(dirPath, dir) IN
    IF g.err # NilErr
    THEN [metrics |-> <<>>, err |-> Wrap("glob pattern", g.err)]
    ELSE [metrics |-> LoadFiles(g.files, dir, <<>>), err |-> NilErr]

\* metrics, err := loadFromLocal(ctx, dirPath), for any dirPath and any content
\* dir of that directory.
LoadFromLocal ==
    /\ loaded = Nil
    /\ \E dirPath \in DirPaths : \E dir \in Directories :
           loaded' = Ptr([dirPath |-> dirPath, dir |-> dir,
                          out |-> loadFromLocal(dirPath, dir)])
    /\ UNCHANGED <<core, ext, agg, objects, queued>>

InitLoad ==
    /\ InitCore
    /\ InitExt

NextLoad == LoadFromLocal

\* One loadFromLocal call, on any directory.
SpecLoad == InitLoad /\ [][NextLoad]_vars

\* strings.HasSuffix(s, suffix)
HasSuffix(s, suffix) ==
    Len(s) >= Len(suffix) /\ SubSeq(s, Len(s) - Len(suffix) + 1, Len(s)) = suffix

\* The entries of dir named instance-<anything>.json that can be read and hold a
\* JSON object, in the directory's order.
Loadable(dir) ==
    SelectSeq([i \in 1..Len(FileNames) |-> i],
              LAMBDA i : /\ i \in DOMAIN dir
                         /\ HasPrefix(FileNames[i], SubSeq(InstancePattern, 1, 9))
                         /\ HasSuffix(FileNames[i], SubSeq(InstancePattern, 11, 15))
                         /\ dir[i].readable
                         /\ Head(dir[i].data) = "object")

\* C22: loadFromLocal returns a nil error and exactly the metrics of the files
\* named instance-*.json in the directory that can be read and parsed; the
\* others are skipped, and a directory without such files gives an empty result.
C22_LoadSkipsBadFiles ==
    loaded # Nil
    => /\ loaded[1].out.err = NilErr
       /\ Len(loaded[1].out.metrics) = Len(Loadable(loaded[1].dir))
       /\ \A k \in 1..Len(loaded[1].out.metrics) :
              loaded[1].out.metrics[k]
                  = Unmarshal(loaded[1].dir[Loadable(loaded[1].dir)[k]].data).m

-----------------------------------------------------------------------------
(* demo.AggregatedMetrics: Calculate.                                      *)

MaxAggregated == 3      \* instance results in one AggregatedMetrics
MaxCalculates == 2      \* Calculate calls made on one AggregatedMetrics

\* The part of a ProcessMetrics that Calculate reads; times are in milliseconds.
InstanceResult(bytes, lines, words, chars, time) ==
    [BytesProcessed |-> bytes, LinesCount |-> lines, WordsCount |-> words,
     CharactersCount |-> chars, ProcessingTimeSeconds |-> time]

InstanceResults ==
    {InstanceResult(0, 0, 0, 0, 0), InstanceResult(5, 1, 2, 4, 2000),
     InstanceResult(7, 2, 3, 5, 3000), InstanceResult(5, 1, 2, 4, 1500)}

\* &demo.AggregatedMetrics{Instances: instances}: every other field is zero.  A
\* quotient of two float64 values is kept as the pair <<dividend, divisor>>.
NewAggregatedMetrics(instances) ==
    [Instances |-> instances,
     TotalBytesProcessed |-> 0, TotalLines |-> 0, TotalWords |-> 0,
     TotalCharacters |-> 0,
     MaxProcessingTime |-> 0, MinProcessingTime |-> 0,
     AvgProcessingTime |-> <<0, 1>>, Efficiency |-> <<0, 1>>, Timestamp |-> ""]

\* The first loop of Calculate over instances[k..]: each count is added to the
\* total the value already holds.
RECURSIVE SumCounts(_, _)
SumCounts(a, instances) ==
    IF instances = <<>> THEN a
    ELSE LET m == Head(instances) IN
         SumCounts([a EXCEPT !.TotalBytesProcessed = @ + m.BytesProcessed,
                             !.TotalLines = @ + m.LinesCount,
                             !.TotalWords = @ + m.WordsCount,
                             !.TotalCharacters = @ + m.CharactersCount],
                   Tail(instances))

\* The second loop of Calculate over instances[k..], from the values maxTime,
\* minTime and totalTime have before it.
RECURSIVE TimeLoop(_, _)
TimeLoop(t, instances) ==
    IF instances = <<>> THEN t
    ELSE LET m == Head(instances) IN
         TimeLoop([maxTime |-> IF m.ProcessingTimeSeconds > t.maxTime
                               THEN m.ProcessingTimeSeconds ELSE t.maxTime,
                   minTime |-> IF m.ProcessingTimeSeconds < t.minTime
                               THEN m.ProcessingTimeSeconds ELSE t.minTime,
                   totalTime |-> t.totalTime + m.ProcessingTimeSeconds],
                  Tail(instances))

\* A mutant of TimeStats: maxTime and minTime start at zero.
TimeStatsFromZero(instances) ==
    TimeLoop([maxTime |-> 0, minTime |-> 0, totalTime |-> 0], instances)

\* maxTime, minTime and totalTime after the second loop: maxTime and minTime
\* start at the first instance's time.
TimeStats(instances) ==
    TimeLoop([maxTime |-> instances[1].ProcessingTimeSeconds,
              minTime |-> instances[1].ProcessingTimeSeconds,
              totalTime |-> 0], instances)

\* a.Calculate()
CalculateAggregated(a) ==
    IF Len(a.Instances) = 0 THEN a
    ELSE LET summed == SumCounts(a, a.Instances)
             t == TimeStats(a.Instances)
         IN [summed EXCEPT
                !.MaxProcessingTime = t.maxTime,
                !.MinProcessingTime = t.minTime,
                !.AvgProcessingTime = <<t.totalTime, Len(a.Instances)>>,
                !.Efficiency = IF t.maxTime > 0
                               THEN <<t.totalTime, Len(a.Instances) * t.maxTime>>
                               ELSE @,
                !.Timestamp = "now"]

\* agg.Calculate() on the value the aggregator holds.
CallCalculate ==
    /\ agg # Nil
    /\ agg[1].calls < MaxCalculates
    /\ agg' = Ptr([a |-> CalculateAggregated(agg[1].a), calls |-> agg[1].calls + 1,
                   first |-> IF agg[1].calls = 0 THEN CalculateAggregated(agg[1].a)
                             ELSE agg[1].first])
    /\ UNCHANGED <<core, ext, loaded, objects, queued>>

\* agg := &demo.AggregatedMetrics{Instances: instances}, for any instances.
InitAgg ==
    /\ InitCore
    /\ InitOps
    /\ loaded = Nil
    /\ objects = Nil
    /\ queued = Nil
    /\ \E instances \in UNION {[1..n -> InstanceResults] : n \in 0..MaxAggregated} :
           agg = Ptr([a |-> NewAggregatedMetrics(instances), calls |-> 0,
                      first |-> NewAggregatedMetrics(instances)])

NextAgg == CallCalculate

\* Calculate called on a new AggregatedMetrics, once or again.
SpecAgg == InitAgg /\ [][NextAgg]_vars

\* The sum of field f over the instances, and the set of their times.
RECURSIVE SumField(_, _)
SumField(instances, f) ==
    IF instances = <<>> THEN 0 ELSE Head(instances)[f] + SumField(Tail(instances), f)
Times(instances) == {instances[i].ProcessingTimeSeconds : i \in 1..Len(instances)}

\* C23: after one Calculate on a value whose totals were zero, each total is the
\* sum of its field over the Instances and MinProcessingTime and
\* MaxProcessingTime are the smallest and the largest instance time; Calculate
\* on an empty Instances list changes nothing.
C23_CalculateTotals ==
    agg # Nil
    => LET a == agg[1].a IN
       /\ (agg[1].calls = 1 /\ Len(a.Instances) > 0)
          => /\ a.TotalBytesProcessed = SumField(a.Instances, "BytesProcessed")
             /\ a.TotalLines = SumField(a.Instances, "LinesCount")
             /\ a.TotalWords = SumField(a.Instances, "WordsCount")
             /\ a.TotalCharacters = SumField(a.Instances, "CharactersCount")
             /\ a.MinProcessingTime \in Times(a.Instances)
             /\ a.MaxProcessingTime \in Times(a.Instances)
             /\ \A t \in Times(a.Instances) :
                    a.MinProcessingTime <= t /\ t <= a.MaxProcessingTime
       /\ Len(a.Instances) = 0 => a = NewAggregatedMetrics(<<>>)

\* Calculate ran once on three results whose times differ.
C23_Witness ==
    /\ agg # Nil
    /\ agg[1].calls = 1
    /\ Len(agg[1].a.Instances) = 3
    /\ agg[1].a.MinProcessingTime = 1500
    /\ agg[1].a.MaxProcessingTime = 3000
    /\ agg[1].a.TotalBytesProcessed = 17

\* C30: a second Calculate on the same value, its Instances unchanged, leaves the
\* four integer totals as the first call left them.
C30_CalculateIdempotent ==
    (agg # Nil /\ agg[1].calls = 2)
    => /\ agg[1].a.TotalBytesProcessed = agg[1].first.TotalBytesProcessed
       /\ agg[1].a.TotalLines = agg[1].first.TotalLines
       /\ agg[1].a.TotalWords = agg[1].first.TotalWords
       /\ agg[1].a.TotalCharacters = agg[1].first.TotalCharacters

-----------------------------------------------------------------------------
(* mapCloudTasksStatus, applied to any task.                               *)

\* The codes a response status may hold: the values around the two limits of
\* the success range, and some far from them.
StatusCodes == {-1, 0, 16, 404, 500} \cup (180..320)

\* Every task the service may hand back: never attempted, attempted without a
\* response, attempted with a response of any code.
MappedTasks ==
    {Ptr(Task(TaskName(1), la)) :
        la \in {Nil, Ptr(Attempt(Nil))}
               \cup {Ptr(Attempt(Ptr(RespStatus(code)))) : code \in StatusCodes}}

InitMapTask ==
    /\ InitCore
    /\ InitOps
    /\ loaded = Nil
    /\ agg = Nil
    /\ objects = Nil
    /\ queued \in {[task |-> t, status |-> "none"] : t \in MappedTasks \cup {Nil}}

\* mapCloudTasksStatus(task)
MapTask ==
    /\ queued # Nil
    /\ queued.status = "none"
    /\ queued' = [queued EXCEPT !.status = mapCloudTasksStatus(queued.task)]
    /\ UNCHANGED <<core, ext, loaded, agg, objects>>

SpecMapTask == InitMapTask /\ [][MapTask]_vars

\* C24: mapCloudTasksStatus gives Unknown for a nil task only, and for a task
\* that is not nil: Pending without a last attempt, Running with a last attempt
\* that has no response status, Completed with a response code in [200, 300),
\* Failed with any other response code; never Cancelled.
C24_TaskStatusMapping ==
    (queued # Nil /\ queued.status # "none")
    => LET t == queued.task
           st == queued.status
       IN /\ st = JobStatusUnknown <=> t = Nil
          /\ st # JobStatusCancelled
          /\ t # Nil
             => /\ st = JobStatusPending <=> t[1].LastAttempt = Nil
                /\ st = JobStatusRunning
                   <=> /\ t[1].LastAttempt # Nil
                       /\ t[1].LastAttempt[1].ResponseStatus = Nil
                /\ st = JobStatusCompleted
                   <=> /\ t[1].LastAttempt # Nil
                       /\ t[1].LastAttempt[1].ResponseStatus # Nil
                       /\ t[1].LastAttempt[1].ResponseStatus[1].Code \in 200..299
                /\ st \in {JobStatusPending, JobStatusRunning, JobStatusCompleted,
                           JobStatusFailed}

\* A task whose last attempt was answered with the last code of the success
\* range was mapped to Completed.
C24_Witness ==
    /\ queued # Nil
    /\ queued.task # Nil
    /\ queued.task[1].LastAttempt # Nil
    /\ queued.task[1].LastAttempt[1].ResponseStatus = Ptr(RespStatus(299))
    /\ queued.status = JobStatusCompleted

-----------------------------------------------------------------------------
(* mapCloudRunStatus without a terminal condition.                         *)

\* No condition of the list is a terminal one in the succeeded state.
NoTerminalSucceeded(conds) ==
    \A i \in 1..Len(conds) :
        ~(/\ conds[i].Type \in {"Completed", "Failed", "Cancelled"}
          /\ conds[i].State = ConditionSucceeded)

\* C25: mapCloudRunStatus returns Unknown for a nil execution only; for an
\* execution without a terminal condition in the succeeded state it returns
\* Running when RunningCount > 0, Pending when the running, succeeded and failed
\* counts are all zero, and Running in every remaining case.
C25_RunningIsCatchAll ==
    mapped # "none"
    => /\ mapped = JobStatusUnknown <=> execution = Nil
       /\ (execution # Nil /\ NoTerminalSucceeded(execution[1].Conditions))
          => LET e == execution[1] IN
             /\ e.RunningCount > 0 => mapped = JobStatusRunning
             /\ (e.RunningCount = 0 /\ e.SucceededCount = 0 /\ e.FailedCount = 0)
                => mapped = JobStatusPending
             /\ (e.RunningCount = 0 /\ (e.SucceededCount # 0 \/ e.FailedCount # 0))
                => mapped = JobStatusRunning

\* An execution with no task running, one task succeeded and only a condition
\* that did not succeed was mapped to Running.
C25_Witness ==
    /\ execution # Nil
    /\ execution[1].Conditions = <<Condition("Completed", ConditionFailed)>>
    /\ execution[1].RunningCount = 0
    /\ execution[1].SucceededCount = 1
    /\ mapped = JobStatusRunning

-----------------------------------------------------------------------------
(* The order of the backend calls of the medium tier's SubmitJob.          *)

\* s is an initial part of t.
IsPrefix(s, t) == Len(s) <= Len(t) /\ SubSeq(t, 1, Len(s)) = s

\* C26: GCPCloudRunProvider.SubmitJob issues CreateJob, its Wait, RunJob and
\* Metadata in this order, each only after the one before it succeeded; when
\* CreateJob or its Wait fails, no RunJob is issued and no JobResult is returned;
\* once RunJob is accepted the call returns a JobResult with the created job's
\* name and InitialStatus Running, whether or not the metadata can be read.
C26_CreateThenRun ==
    (last.op = "SubmitJob" /\ Len(calls) = 1 /\ calls[1].p = RunProvider)
    => LET trace == calls[1].trace IN
       /\ Len(trace) >= 1
       /\ IsPrefix(trace, <<"CreateJob", "Wait", "RunJob", "Metadata">>)
       /\ Len(trace) >= 3 => JobName(last.config.JobID) \in HeldJobNames(backend)
       /\ Len(trace) <= 2 => (last.res = Nil /\ last.err # NilErr)
       /\ Len(trace) = 4
          => /\ last.err = NilErr
             /\ last.res = Ptr(JobResult(JobName(last.config.JobID), JobStatusRunning))
             /\ last.config.JobID \in DOMAIN backend.execs
       /\ last.res # Nil => Len(trace) = 4

\* A job was created and run, and SubmitJob returned its name with Running.
C26_Witness ==
    /\ last.op = "SubmitJob"
    /\ Len(calls) = 1
    /\ calls[1].p = RunProvider
    /\ calls[1].trace = <<"CreateJob", "Wait", "RunJob", "Metadata">>
    /\ last.res = Ptr(JobResult(JobName(1), JobStatusRunning))
    /\ last.err = NilErr

-----------------------------------------------------------------------------
(* Construction of the Dispatcher with any options.                        *)

\* C27: for any options, one given a nil provider included, New returns a
\* Dispatcher or an error and does not crash, and a provider that ProviderFor
\* returns with a nil error is not nil.
C27_ConstructionNeverCrashes ==
    /\ built \in {"unbuilt", "ok", "error"}
    /\ last.op = "New" => (~last.panic /\ (built = "error" <=> last.err # NilErr))
    /\ (last.op = "ProviderFor" /\ last.err = NilErr) => last.res # Nil

-----------------------------------------------------------------------------
(* Clients of a failed construction.                                       *)

\* C28: when a provider constructor returns an error, every backend client it
\* created during the call has been closed.
C28_FailedConstructionClosesClients ==
    (construct # Nil /\ construct[1].out.err # NilErr)
    => construct[1].out.created \subseteq construct[1].out.closed

-----------------------------------------------------------------------------
(* demo.ListGCSObjects.                                                    *)

MaxObjects == 2     \* objects the bucket holds

\* Paths and object names are lists of characters.
GSPrefix == <<"g", "s", ":", "/", "/">>

GCSParsed(bucket, key, err) == [bucket |-> bucket, key |-> key, err |-> err]

\* ParseGCSPath(path): the bucket and the key around the first "/" after gs://.
ParseGCSPath(path) ==
    IF ~HasPrefix(path, GSPrefix)
    THEN GCSParsed(<<>>, <<>>, <<"invalid GCS path: must start with gs://">>)
    ELSE LET trimmed == SubSeq(path, Len(GSPrefix) + 1, Len(path))
             slashes == {i \in 1..Len(trimmed) : trimmed[i] = "/"}
         IN IF slashes = {}
            THEN GCSParsed(<<>>, <<>>, <<"invalid GCS path: must be gs://bucket/key">>)
            ELSE LET first == CHOOSE i \in slashes : \A j \in slashes : i <= j
                     bucket == SubSeq(trimmed, 1, first - 1)
                     key == SubSeq(trimmed, first + 1, Len(trimmed))
                 IN IF bucket = <<>> \/ key = <<>>
                    THEN GCSParsed(<<>>, <<>>,
                             <<"invalid GCS path: bucket and key cannot be empty">>)
                    ELSE GCSParsed(bucket, key, NilErr)

\* The errors of the object iterator: iterator.Done after the last object, and
\* a failure of the service.  storage.ErrObjectNotExist is the error of a
\* missing object, which the iterator does not return.
IteratorDone == <<"no more items in iterator">>
ErrObjectNotExist == <<"storage: object doesn't exist">>

\* What the calls of it.Next() return, in order, up to the first error: the
\* objects under the prefix, then iterator.Done, or a failure at call failAt when
\* the iterator gets that far.
NextResults(held, prefix, failAt) ==
    LET under == SelectSeq(held, LAMBDA name : HasPrefix(name, prefix))
        fails == failAt # 0 /\ failAt <= Len(under) + 1
        served == IF fails THEN SubSeq(under, 1, failAt - 1) ELSE under
    IN [i \in 1..Len(served) |-> [name |-> served[i], err |-> NilErr]]
           \o <<[name |-> <<>>,
                 err |-> IF fails THEN <<"Unavailable">> ELSE IteratorDone]>>

\* The loop of ListGCSObjects over the results of it.Next(): it ends without an
\* error at storage.ErrObjectNotExist, and with the wrapped error at any other.
RECURSIVE ListLoop(_, _, _)
ListLoop(results, bucket, objs) ==
    LET r == Head(results) IN
    IF r.err = ErrObjectNotExist THEN [objects |-> objs, err |-> NilErr]
    ELSE IF r.err # NilErr
    THEN [objects |-> <<>>, err |-> Wrap("list GCS objects", r.err)]
    ELSE ListLoop(Tail(results), bucket,
                  Append(objs, GSPrefix \o bucket \o <<"/">> \o r.name))

\* ListGCSObjects(ctx, basePath), the bucket holding held; clientOK is whether
\* storage.NewClient succeeds.
ListGCSObjects(basePath, clientOK, held, failAt) ==
    LET parsed == ParseGCSPath(basePath) IN
    IF parsed.err # NilErr THEN [objects |-> <<>>, err |-> parsed.err]
    ELSE IF ~clientOK
    THEN [objects |-> <<>>, err |-> Wrap("create GCS client", <<"Unavailable">>)]
    ELSE ListLoop(NextResults(held, parsed.key, failAt), parsed.bucket, <<>>)

\* The paths the aggregator is given: gs://b/o, gs://b/o/, gs://b and b/o.
BasePaths ==
    {GSPrefix \o <<"b", "/", "o">>, GSPrefix \o <<"b", "/", "o", "/">>,
     GSPrefix \o <<"b">>, <<"b", "/", "o">>}

\* The names of the objects a bucket may hold: o/a, o/b and x.
ObjectNames == {<<"o", "/", "a">>, <<"o", "/", "b">>, <<"x">>}
Buckets == UNION {[1..n -> ObjectNames] : n \in 0..MaxObjects}

\* objects, err := demo.ListGCSObjects(ctx, basePath)
CallListGCSObjects ==
    /\ objects = Nil
    /\ \E basePath \in BasePaths, clientOK \in BOOLEAN, held \in Buckets :
           \E failAt \in FailPoints(held) :
               objects' = Ptr([basePath |-> basePath, clientOK |-> clientOK,
                               held |-> held, failAt |-> failAt,
                               out |-> ListGCSObjects(basePath, clientOK, held, failAt)])
    /\ UNCHANGED <<core, ext, loaded, agg, queued>>

InitObjects ==
    /\ InitCore
    /\ InitExt

NextObjects == CallListGCSObjects

\* One ListGCSObjects call, on any bucket.
SpecObjects == InitObjects /\ [][NextObjects]_vars

\* C29: when the object iterator is exhausted normally, ListGCSObjects returns a
\* nil error and the gs://bucket/name path of every object under the prefix.
C29_ListEndsWithoutError ==
    (/\ objects # Nil
     /\ ParseGCSPath(objects[1].basePath).err = NilErr
     /\ objects[1].clientOK
     /\ objects[1].failAt = 0)
    => LET parsed == ParseGCSPath(objects[1].basePath)
           under == SelectSeq(objects[1].held,
                              LAMBDA name : HasPrefix(name, parsed.key))
       IN /\ objects[1].out.err = NilErr
          /\ objects[1].out.objects
                 = [i \in 1..Len(under) |->
                       GSPrefix \o parsed.bucket \o <<"/">> \o under[i]]

====
